---- MODULE Spec2Model ----
(***************************************************************************)
(* A model of the legal-intake chatbot repository:                         *)
(*   - the phase transition engine (py_consumer/logic/phase_utils.py,      *)
(*     with the branch rule query of py_consumer/utils/database.py);       *)
(*   - the embedding index of the RAG system (rag/rag_deepseek.py).        *)
(* Each subsystem has its own specification over the shared variables; the *)
(* variables of the other subsystem stay at their initial values.          *)
(***************************************************************************)
EXTENDS Integers, Sequences, FiniteSets, TLC

(***************************************************************************)
(* Bounds of the model.                                                    *)
(***************************************************************************)
MaxContext == 2      \* longest conversation context handed to the engine
MaxRules == 2        \* most rows of legalbot.branch_flow
MaxDocs == 2         \* most rows of legalbot.knowledge_base
MaxTopK == 3         \* largest top_k a search asks for
MaxRequests == 3     \* most requests of a batch
MaxConcurrent == 2   \* largest processing.max_concurrent_requests
MaxParts == 3        \* most parts of a message handed to the slot extractor
MaxSentences == 4    \* most pieces between the full stops of a chunked text
MaxMessages == 2      \* most rows of legalbot.messages
MaxWords == 2         \* most words of a user message handed to a condition
MaxRetryCount == 3    \* largest retry_count of a workflow step
MaxUserMessages == 2  \* most user messages the consumer finds stored
MaxPolls == 2         \* most iterations of the polling loop of the consumer
MaxSteps == 2         \* most steps of a custom workflow
MaxReceived == 2      \* most messages the automation service receives
MaxSends == 2         \* most messages the service passes to send_message
MaxQueued == 3        \* most entries of message_queue
MaxDelivered == 3     \* most messages the server receives

(***************************************************************************)
(* Values shared by the operators.                                         *)
(***************************************************************************)
None == "None"             \* Python's None, where a phase name is expected
TT == "true"               \* a call returned True
FF == "false"              \* a call returned False
EXC == "exception"         \* a call raised

\* dict.get(key, default)
Get(d, k, default) == IF k \in DOMAIN d THEN d[k] ELSE default

\* a value that is truthy in Python: a non-empty string
Truthy(v) == v # ""

(***************************************************************************)
(* Phases.                                                                 *)
(***************************************************************************)
phase_sequence ==
    << "INFO_COLLECTION", "CASE_ANALYSIS", "PRODUCT_RECOMMENDATION", "SALES_CONVERSION" >>

\* the phases a conversation is in: the four of the sequence and one that the
\* configured rules may name outside it
Phases == { phase_sequence[i] : i \in 1..Len(phase_sequence) } \cup { "FOLLOW_UP" }

(***************************************************************************)
(* The text of an AI response is a sequence of symbols: the literal parts  *)
(* of the three marker forms, words of upper-case letters and underscores, *)
(* and other text.  Symbols are adjacent in the text (no implicit space).  *)
(***************************************************************************)
UpperWords == Phases

RECURSIVE UpperRun(_, _)
\* the longest run of characters of [A-Z_] that starts at symbol i: its text,
\* and the index of the symbol that follows it (0 when the run ends inside a
\* symbol, as it does at the colon of TRANSITION_TO:)
UpperRun(s, i) ==
    IF i > Len(s) THEN [tok |-> "", next |-> i]
    ELSE IF s[i] \in UpperWords
         THEN LET r == UpperRun(s, i + 1) IN [tok |-> s[i] \o r.tok, next |-> r.next]
    ELSE IF s[i] = "TRANSITION_TO:" THEN [tok |-> "TRANSITION_TO", next |-> 0]
    ELSE [tok |-> "", next |-> i]

\* the group a pattern captures when it matches at symbol i, None otherwise;
\* closer = "" for the pattern that ends with the group
MatchAt(s, i, opener, closer) ==
    IF s[i] # opener THEN None
    ELSE LET r == UpperRun(s, i + 1) IN
         IF r.tok = "" THEN None
         ELSE IF closer = "" THEN r.tok
         ELSE IF r.next # 0 /\ r.next <= Len(s) /\ s[r.next] = closer THEN r.tok
         ELSE None

\* a search that takes the last match of the pattern instead of the first
SearchLast(s, opener, closer) ==
    LET hits == { i \in 1..Len(s) : MatchAt(s, i, opener, closer) # None } IN
    IF hits = {} THEN None
    ELSE MatchAt(s, CHOOSE i \in hits : \A j \in hits : i >= j, opener, closer)

\* re.search(pattern, s): the group of the leftmost match, None without one
Search(s, opener, closer) ==
    LET hits == { i \in 1..Len(s) : MatchAt(s, i, opener, closer) # None } IN
    IF hits = {} THEN None
    ELSE MatchAt(s, CHOOSE i \in hits : \A j \in hits : i <= j, opener, closer)

patterns ==
    << [opener |-> "[NEXT_PHASE:", closer |-> "]"],
       [opener |-> "<PHASE_TRANSITION>", closer |-> "</PHASE_TRANSITION>"],
       [opener |-> "TRANSITION_TO:", closer |-> ""] >>

RECURSIVE ExtractFrom(_, _)
ExtractFrom(ai_response, k) ==
    IF k > Len(patterns) THEN None
    ELSE LET g == Search(ai_response, patterns[k].opener, patterns[k].closer) IN
         IF g # None THEN g ELSE ExtractFrom(ai_response, k + 1)

\* PhaseManager._extract_phase_from_response
_extract_phase_from_response(ai_response) == ExtractFrom(ai_response, 1)

(***************************************************************************)
(* A user message is a sequence of words; str.lower() and the substring    *)
(* test `x in text` are taken word by word.                                *)
(***************************************************************************)
Lower(w) ==
    CASE w = "PRICING" -> "pricing"
      [] w = "Pricing" -> "pricing"
      [] w = "Lawyer" -> "lawyer"
      [] w = "PRODUCT_RECOMMENDATION" -> "product_recommendation"
      [] OTHER -> w

\* needle in haystack, for a needle that is one word or phrase
Contains(text, needle) == \E i \in 1..Len(text) : text[i] = needle

LowerText(text) == [i \in 1..Len(text) |-> Lower(text[i])]

(***************************************************************************)
(* Condition evaluators.  condition_data is the rule's JSON object, a      *)
(* record; NotADict stands for a value without .get (NULL, or the JSON     *)
(* text left undecoded).  A context entry is a record that has the keys    *)
(* sender_type and created_at, or lacks one of them.  Times are minutes.   *)
(***************************************************************************)
NotADict == [malformed |-> TRUE]
IsDict(cd) == "malformed" \notin DOMAIN cd

\* [msg for msg in context if msg['sender_type'] == 'user'] raises KeyError
SenderKeyError(context) == \E i \in 1..Len(context) : "sender_type" \notin DOMAIN context[i]

user_messages(context) == { i \in 1..Len(context) : context[i].sender_type = "user" }

\* _check_sufficient_info with the message count compared by <= instead of <
CheckSufficientInfoOffByOne(condition_data, slots, context) ==
    IF ~IsDict(condition_data) THEN EXC
    ELSE IF SenderKeyError(context) THEN EXC
    ELSE IF Cardinality(user_messages(context)) <= Get(condition_data, "min_messages", 3) THEN FF
    ELSE IF \E field \in Get(condition_data, "required_fields", {}) :
                field \notin DOMAIN slots \/ ~Truthy(slots[field]) THEN FF
    ELSE TT

\* PhaseManager._check_sufficient_info
_check_sufficient_info(condition_data, slots, context) ==
    IF ~IsDict(condition_data) THEN EXC
    ELSE IF SenderKeyError(context) THEN EXC
    ELSE IF Cardinality(user_messages(context)) < Get(condition_data, "min_messages", 3) THEN FF
    ELSE IF \E field \in Get(condition_data, "required_fields", {}) :
                field \notin DOMAIN slots \/ ~Truthy(slots[field]) THEN FF
    ELSE TT

analysis_indicators ==
    { "analysis complete", "assessment shows", "legal assessment", "case strength",
      "recommendation", "next steps" }

\* indicator in response_lower, symbol by symbol; 'recommendation' is also a
\* substring of the lower-cased phase name product_recommendation
IndicatorIn(indicator, response_lower) ==
    \/ Contains(response_lower, indicator)
    \/ indicator = "recommendation" /\ Contains(response_lower, "product_recommendation")

\* PhaseManager._check_analysis_complete; thresholds are held in hundredths
_check_analysis_complete(condition_data, ai_response, slots) ==
    IF ~IsDict(condition_data) THEN EXC
    ELSE LET confidence_threshold == Get(condition_data, "confidence_threshold", 80)
             response_lower == LowerText(ai_response)
             indicator_count ==
                 Cardinality({ ind \in analysis_indicators : IndicatorIn(ind, response_lower) })
         IN  IF indicator_count * 100 >= confidence_threshold * Cardinality(analysis_indicators)
             THEN TT ELSE FF

default_interest_indicators ==
    { "pricing", "cost", "fee", "timeline", "next steps", "proceed", "continue", "hire" }

\* PhaseManager._check_client_interest
_check_client_interest(condition_data, message, context) ==
    IF ~IsDict(condition_data) THEN EXC
    ELSE LET interest_indicators ==
                 Get(condition_data, "interest_indicators", default_interest_indicators)
             message_lower == LowerText(message)
         IN  IF \E indicator \in interest_indicators : Contains(message_lower, indicator)
             THEN TT ELSE FF

\* PhaseManager._check_message_count
_check_message_count(condition_data, context) ==
    IF ~IsDict(condition_data) THEN EXC
    ELSE IF SenderKeyError(context) THEN EXC
    ELSE LET min_count == Get(condition_data, "min_count", 5)
             max_count == Get(condition_data, "max_count", 50)
             message_count == Cardinality(user_messages(context))
         IN  IF min_count <= message_count /\ message_count <= max_count THEN TT ELSE FF

\* PhaseManager._check_time_elapsed
_check_time_elapsed(condition_data, context) ==
    IF ~IsDict(condition_data) THEN EXC
    ELSE IF context = << >> THEN FF
    ELSE LET first_message == context[1]
             last_message == context[Len(context)]
         IN  IF "created_at" \notin DOMAIN last_message
                \/ "created_at" \notin DOMAIN first_message THEN EXC
             ELSE IF last_message.created_at - first_message.created_at
                        >= Get(condition_data, "min_minutes", 10)
                  THEN TT ELSE FF

\* PhaseManager._check_keyword_match
_check_keyword_match(condition_data, message) ==
    IF ~IsDict(condition_data) THEN EXC
    ELSE LET message_lower == LowerText(message) IN
         IF \E keyword \in Get(condition_data, "keywords", {}) :
                Contains(message_lower, Lower(keyword))
         THEN TT ELSE FF

\* PhaseManager._check_slot_filled
_check_slot_filled(condition_data, slots) ==
    IF ~IsDict(condition_data) THEN EXC
    ELSE IF \E slot_name \in Get(condition_data, "required_slots", {}) :
                slot_name \notin DOMAIN slots \/ ~Truthy(slots[slot_name]) THEN FF
    ELSE TT

\* an else branch that lets a rule of unknown type fire
UnknownConditionFires(condition_type) == TT

\* the else branch of _evaluate_condition: the unknown type is logged, the
\* result is False
UnknownCondition(condition_type) == FF

\* the body of the try of _evaluate_condition
EvaluateConditionTry(rule, message, ai_response, slots, context) ==
    IF "condition_type" \notin DOMAIN rule THEN EXC
    ELSE LET condition_type == rule.condition_type
             condition_data == Get(rule, "condition_data", << >>)
         IN  CASE condition_type = "sufficient_info" ->
                      _check_sufficient_info(condition_data, slots, context)
               [] condition_type = "analysis_complete" ->
                      _check_analysis_complete(condition_data, ai_response, slots)
               [] condition_type = "client_interest" ->
                      _check_client_interest(condition_data, message, context)
               [] condition_type = "message_count" ->
                      _check_message_count(condition_data, context)
               [] condition_type = "time_elapsed" ->
                      _check_time_elapsed(condition_data, context)
               [] condition_type = "keyword_match" ->
                      _check_keyword_match(condition_data, message)
               [] condition_type = "slot_filled" ->
                      _check_slot_filled(condition_data, slots)
               [] OTHER -> UnknownCondition(condition_type)

\* _evaluate_condition without its except clause
EvaluateConditionUncaught(rule, message, ai_response, slots, context) ==
    EvaluateConditionTry(rule, message, ai_response, slots, context)

\* PhaseManager._evaluate_condition: an exception of the body is logged and
\* the rule does not fire
_evaluate_condition(rule, message, ai_response, slots, context) ==
    LET r == EvaluateConditionTry(rule, message, ai_response, slots, context) IN
    IF r = EXC THEN FF ELSE r


(***************************************************************************)
(* State.                                                                  *)
(***************************************************************************)
VARIABLES
    workflow_config,   \* PhaseManager.workflow_config
    branch_flow,       \* the database: [up: is the pool usable, rows: legalbot.branch_flow]
    context,           \* the conversation context handed to determine_next_phase
    pm_pc,             \* "ready" before the call of determine_next_phase, "done" after it
    pm_call,           \* the arguments of the call
    branch_rules,      \* what get_branch_flow_rules returned to the call
    pm_ret             \* what the call did and returned

pmVars == << workflow_config, branch_flow, context, pm_pc, pm_call, branch_rules, pm_ret >>

(***************************************************************************)
(* DatabaseManager.get_branch_flow_rules: the active rows of the phase     *)
(* ORDER BY priority DESC (rows of equal priority in any order); an error  *)
(* of the query is logged and the result is the empty list.                *)
(***************************************************************************)
SelectRows(db, from_phase) == { r \in db.rows : r.from_phase = from_phase /\ r.active }

\* ORDER BY priority ASC
OrderByPriorityAsc(rows) ==
    { s \in [1..Cardinality(rows) -> rows] :
        /\ \A i, j \in DOMAIN s : i # j => s[i] # s[j]
        /\ \A i, j \in DOMAIN s : i < j => s[i].priority <= s[j].priority }

OrderByPriorityDesc(rows) ==
    { s \in [1..Cardinality(rows) -> rows] :
        /\ \A i, j \in DOMAIN s : i # j => s[i] # s[j]
        /\ \A i, j \in DOMAIN s : i < j => s[i].priority >= s[j].priority }

\* a selected row as the dict the caller gets: the four selected columns
RowDict(r) ==
    [to_phase |-> r.to_phase, condition_type |-> r.condition_type,
     condition_data |-> r.condition_data, priority |-> r.priority]

get_branch_flow_rules(db, from_phase) ==
    IF ~db.up THEN { << >> }
    ELSE { [i \in DOMAIN s |-> RowDict(s[i])] : s \in OrderByPriorityDesc(SelectRows(db, from_phase)) }

(***************************************************************************)
(* PhaseManager._should_auto_transition and _get_next_sequential_phase.    *)
(***************************************************************************)
_should_auto_transition(config, current_phase, ctx, t_now) ==
    IF ~Get(config, "auto_transition", TRUE) THEN FF
    ELSE LET timeout_minutes == Get(config, "phase_timeout", 30) IN
         IF ctx # << >>
         THEN LET last_message == ctx[Len(ctx)] IN
              IF "created_at" \notin DOMAIN last_message THEN EXC
              ELSE IF t_now - last_message.created_at > timeout_minutes THEN TT ELSE FF
         ELSE FF

\* a successor function that wraps around from the last phase to the first
NextSequentialPhaseWrapping(current_phase) ==
    LET at == { i \in 1..Len(phase_sequence) : phase_sequence[i] = current_phase } IN
    IF at = {} THEN None
    ELSE phase_sequence[((CHOOSE i \in at : TRUE) % Len(phase_sequence)) + 1]

_get_next_sequential_phase(current_phase) ==
    LET at == { i \in 1..Len(phase_sequence) : phase_sequence[i] = current_phase } IN
    IF at = {} THEN None
    ELSE LET current_index == CHOOSE i \in at : TRUE IN
         IF current_index < Len(phase_sequence) THEN phase_sequence[current_index + 1] ELSE None

(***************************************************************************)
(* PhaseManager.determine_next_phase.  The body of its try yields a record:*)
(* phase, the value returned (when exc is FALSE); exc, whether it raised;  *)
(* fetched, whether the rules were asked for; evaluated, how many rules    *)
(* were evaluated; fired, the index of the rule whose target was returned  *)
(* (0 for none); auto_checked, whether _should_auto_transition was called. *)
(***************************************************************************)
RECURSIVE EvaluateRules(_, _, _, _, _, _)
\* the for loop over branch_rules from rule i on: the index of the rule that
\* returned (0 when none did), the number of rules evaluated, and whether
\* the loop raised
EvaluateRules(rules, i, message, ai_response, slots, ctx) ==
    IF i > Len(rules) THEN [fired |-> 0, evaluated |-> Len(rules), exc |-> FALSE]
    ELSE LET r == _evaluate_condition(rules[i], message, ai_response, slots, ctx) IN
         IF r = EXC THEN [fired |-> 0, evaluated |-> i, exc |-> TRUE]
         ELSE IF r = TT
              THEN IF "to_phase" \in DOMAIN rules[i]
                   THEN [fired |-> i, evaluated |-> i, exc |-> FALSE]
                   ELSE [fired |-> 0, evaluated |-> i, exc |-> TRUE]
         ELSE EvaluateRules(rules, i + 1, message, ai_response, slots, ctx)

Ret(phase, exc, fetched, evaluated, fired, auto_checked) ==
    [phase |-> phase, exc |-> exc, fetched |-> fetched, evaluated |-> evaluated,
     fired |-> fired, auto_checked |-> auto_checked]

DetermineTry(config, current_phase, message, ai_response, slots, ctx, rules, t_now) ==
    LET explicit_phase == _extract_phase_from_response(ai_response) IN
    IF explicit_phase # None
    THEN Ret(explicit_phase, FALSE, FALSE, 0, 0, FALSE)
    ELSE LET loop == EvaluateRules(rules, 1, message, ai_response, slots, ctx) IN
         IF loop.exc THEN Ret(None, TRUE, TRUE, loop.evaluated, 0, FALSE)
         ELSE IF loop.fired # 0
         THEN Ret(rules[loop.fired].to_phase, FALSE, TRUE, loop.evaluated, loop.fired, FALSE)
         ELSE LET auto == _should_auto_transition(config, current_phase, ctx, t_now)
                  next_phase == _get_next_sequential_phase(current_phase)
              IN  IF auto = EXC THEN Ret(None, TRUE, TRUE, loop.evaluated, 0, TRUE)
                  ELSE IF auto = TT /\ next_phase # None
                  THEN Ret(next_phase, FALSE, TRUE, loop.evaluated, 0, TRUE)
                  ELSE Ret(current_phase, FALSE, TRUE, loop.evaluated, 0, TRUE)

\* the try/except of determine_next_phase: an exception is logged and the
\* current phase is returned
determine_next_phase(config, current_phase, message, ai_response, slots, ctx, rules, t_now) ==
    LET t == DetermineTry(config, current_phase, message, ai_response, slots, ctx, rules, t_now) IN
    [t EXCEPT !.phase = IF t.exc THEN current_phase ELSE t.phase]


(***************************************************************************)
(* The inputs of the phase engine.                                         *)
(***************************************************************************)
PHASE_TIMEOUT == 1800        \* workflow.phase_timeout of Config

\* datetime.now() of the call, and the two creation times of context
\* messages: one minute past the timeout, and exactly at it
Now == PHASE_TIMEOUT + 10
TOld == Now - PHASE_TIMEOUT - 1
TNew == Now - PHASE_TIMEOUT

WorkflowConfigs ==
    { [auto_transition |-> a, phase_timeout |-> PHASE_TIMEOUT] : a \in BOOLEAN }

ContextEntries ==
    { [sender_type |-> "user", created_at |-> TOld],
      [sender_type |-> "user", created_at |-> TNew],
      [sender_type |-> "assistant", created_at |-> TNew],
      [id |-> "m"] }                      \* neither sender_type nor created_at

\* contexts are ordered by creation time, oldest first
Contexts ==
    { c \in UNION { [1..n -> ContextEntries] : n \in 0..MaxContext } :
        \A i, j \in DOMAIN c :
            (i < j /\ "created_at" \in DOMAIN c[i] /\ "created_at" \in DOMAIN c[j])
                => c[i].created_at <= c[j].created_at }

Rule(to_phase, condition_type, condition_data, priority, active) ==
    [from_phase |-> "INFO_COLLECTION", to_phase |-> to_phase, condition_type |-> condition_type,
     condition_data |-> condition_data, priority |-> priority, active |-> active]

RulePool ==
    { Rule("CASE_ANALYSIS", "slot_filled", [required_slots |-> {"email"}], 10, TRUE),
      Rule("PRODUCT_RECOMMENDATION", "message_count", [min_count |-> 1, max_count |-> 100], 5, TRUE),
      Rule("CASE_ANALYSIS", "sufficient_info",
           [min_messages |-> 2, required_fields |-> {"email"}], 7, TRUE),
      Rule("SALES_CONVERSION", "sufficient_info", << >>, 5, TRUE),
      Rule("SALES_CONVERSION", "sentiment", << >>, 20, TRUE),
      Rule("SALES_CONVERSION", "slot_filled", NotADict, 15, TRUE),
      Rule("FOLLOW_UP", "message_count", [min_count |-> 0], 30, FALSE) }

Databases ==
    { [up |-> TRUE, rows |-> T] : T \in { T \in SUBSET RulePool : Cardinality(T) <= MaxRules } }
    \cup { [up |-> FALSE, rows |-> {}] }

Responses ==
    { << "ok" >>,
      << "[NEXT_PHASE:", "CASE_ANALYSIS", "]" >>,
      << "[NEXT_PHASE:", "SALES_CONVERSION", "]", " ", "[NEXT_PHASE:", "CASE_ANALYSIS", "]" >>,
      << "TRANSITION_TO:", "SALES_CONVERSION", " ", "[NEXT_PHASE:", "CASE_ANALYSIS", "]" >>,
      << "<PHASE_TRANSITION>", "PRODUCT_RECOMMENDATION", "</PHASE_TRANSITION>" >>,
      << "[NEXT_PHASE:", "case_analysis", "]" >> }

Messages == { << "hello" >> }

SlotSets == { << >>, [email |-> ""], [email |-> "a@b.com"] }

NoCall == [current_phase |-> None, message |-> << >>, ai_response |-> << >>, slots |-> << >>]
NoRet == Ret(None, FALSE, FALSE, 0, 0, FALSE)

InitPhase ==
    /\ workflow_config \in WorkflowConfigs
    /\ branch_flow \in Databases
    /\ context \in Contexts
    /\ pm_pc = "ready"
    /\ pm_call = NoCall
    /\ branch_rules = << >>
    /\ pm_ret = NoRet

\* one call of determine_next_phase; the rules are fetched only when the
\* response carries no marker
DetermineNextPhase ==
    /\ pm_pc = "ready"
    /\ \E current_phase \in Phases, message \in Messages, ai_response \in Responses,
          slots \in SlotSets :
         \E rules \in IF _extract_phase_from_response(ai_response) # None
                      THEN { << >> }
                      ELSE get_branch_flow_rules(branch_flow, current_phase) :
            /\ pm_call' = [current_phase |-> current_phase, message |-> message,
                           ai_response |-> ai_response, slots |-> slots]
            /\ branch_rules' = rules
            /\ pm_ret' = determine_next_phase(workflow_config, current_phase, message,
                                              ai_response, slots, context, rules, Now)
    /\ pm_pc' = "done"
    /\ UNCHANGED << workflow_config, branch_flow, context >>



(***************************************************************************)
(* Properties of the phase engine, stated over the finished call.          *)
(***************************************************************************)
Called == pm_pc = "done"

\* the positions of the response where a marker [NEXT_PHASE:X] stands
BracketMarkers(resp) ==
    { i \in 1..Len(resp) :
        /\ resp[i] = "[NEXT_PHASE:"
        /\ i + 2 <= Len(resp)
        /\ resp[i + 1] \in UpperWords
        /\ resp[i + 2] = "]" }

\* the response carries a marker of one of the three forms
CarriesMarker(resp) ==
    \/ BracketMarkers(resp) # {}
    \/ \E i \in 1..Len(resp) :
          /\ resp[i] = "<PHASE_TRANSITION>"
          /\ i + 2 <= Len(resp)
          /\ resp[i + 1] \in UpperWords
          /\ resp[i + 2] = "</PHASE_TRANSITION>"
    \/ \E i \in 1..Len(resp) :
          resp[i] = "TRANSITION_TO:" /\ i + 1 <= Len(resp) /\ resp[i + 1] \in UpperWords

\* nothing but the marker was looked at
OnlyMarkerUsed == ~pm_ret.fetched /\ pm_ret.evaluated = 0 /\ ~pm_ret.auto_checked

\* C1 as stated: whenever the AI response contains a marker [NEXT_PHASE:X],
\* determine_next_phase returns X, for each such marker of the response, and
\* neither rules nor the auto-transition check are used.
C1_AnyMarkerReturned ==
    Called =>
        \A i \in BracketMarkers(pm_call.ai_response) :
            pm_ret.phase = pm_call.ai_response[i + 1] /\ OnlyMarkerUsed

\* C1 amended: when the AI response contains markers [NEXT_PHASE:X],
\* determine_next_phase returns the X of the leftmost of them, whatever the
\* current phase, rules, slots and context are; no rule is fetched or
\* evaluated and the auto-transition check is not consulted.
C1_LeftmostMarkerReturned ==
    (Called /\ BracketMarkers(pm_call.ai_response) # {}) =>
        LET first == CHOOSE i \in BracketMarkers(pm_call.ai_response) :
                         \A j \in BracketMarkers(pm_call.ai_response) : i <= j
        IN  pm_ret.phase = pm_call.ai_response[first + 1] /\ OnlyMarkerUsed

\* a marker sends the conversation to a phase other than the current one
\* although the database holds an active rule and the context has timed out
C1_Witness ==
    /\ Called
    /\ BracketMarkers(pm_call.ai_response) # {}
    /\ pm_ret.phase = "CASE_ANALYSIS"
    /\ pm_call.current_phase = "INFO_COLLECTION"
    /\ \E r \in branch_flow.rows : r.active /\ r.condition_type = "message_count"
    /\ context = << [sender_type |-> "user", created_at |-> TOld] >>
    /\ workflow_config.auto_transition

\* the rows of the current phase whose condition is true for the call
FiringRows ==
    { r \in SelectRows(branch_flow, pm_call.current_phase) :
        _evaluate_condition(RowDict(r), pm_call.message, pm_call.ai_response,
                            pm_call.slots, context) = TT }

\* C2: without a marker, and with the rules fetched, the rule that decides is
\* a true rule of the highest priority among the true rules of the current
\* phase: the fetched list is in descending priority order, the deciding
\* rule is the first true one of it, and its target is returned.
C2_HighestPriorityRuleWins ==
    (Called /\ ~CarriesMarker(pm_call.ai_response) /\ branch_flow.up) =>
        /\ \A i, j \in DOMAIN branch_rules :
               i < j => branch_rules[i].priority >= branch_rules[j].priority
        /\ FiringRows # {} =>
               /\ pm_ret.fired # 0
               /\ \A k \in 1..(pm_ret.fired - 1) :
                      _evaluate_condition(branch_rules[k], pm_call.message,
                                          pm_call.ai_response, pm_call.slots, context) # TT
               /\ \E r \in FiringRows :
                      /\ \A q \in FiringRows : r.priority >= q.priority
                      /\ branch_rules[pm_ret.fired] = RowDict(r)
                      /\ pm_ret.phase = r.to_phase

\* the priority-10 slot_filled rule and the priority-5 message_count rule are
\* both true, and the target of the priority-10 rule is returned
C2_Witness ==
    /\ Called
    /\ Cardinality(FiringRows) = 2
    /\ { r.priority : r \in FiringRows } = { 10, 5 }
    /\ pm_ret.phase = "CASE_ANALYSIS"
    /\ pm_call.slots = [email |-> "a@b.com"]

\* a step of the determination failed: the rule query, or a step that raised
DeterminationFailed == (pm_ret.fetched /\ ~branch_flow.up) \/ pm_ret.exc

\* C3: determine_next_phase returns a phase, and when a step of the
\* determination failed (the rule fetch, a fired rule without target, the
\* timestamps of the auto-transition check) it returns the current phase.
C3_FailureKeepsPhase ==
    Called =>
        /\ pm_ret.phase # None
        /\ DeterminationFailed => pm_ret.phase = pm_call.current_phase

\* the rules of the fetched list whose evaluation raises, and those that are true
RaisingRules ==
    { i \in DOMAIN branch_rules :
        EvaluateConditionTry(branch_rules[i], pm_call.message, pm_call.ai_response,
                             pm_call.slots, context) = EXC }

TrueRules ==
    { i \in DOMAIN branch_rules :
        EvaluateConditionTry(branch_rules[i], pm_call.message, pm_call.ai_response,
                             pm_call.slots, context) = TT }

\* C4: a rule whose evaluation raises does not fire and does not stop the
\* loop: when a rule after it is true, the first true rule of the list
\* decides the next phase.
C4_RaisingRuleSkipped ==
    (Called /\ pm_ret.fetched) =>
        /\ pm_ret.fired \notin RaisingRules
        /\ (\E i \in RaisingRules, j \in TrueRules : i < j) =>
               /\ pm_ret.fired = CHOOSE j \in TrueRules : \A k \in TrueRules : j <= k
               /\ pm_ret.phase = branch_rules[pm_ret.fired].to_phase

\* the slot_filled rule with malformed condition data (priority 15) raised,
\* and the priority-10 rule after it decided
C4_Witness ==
    /\ Called
    /\ 1 \in RaisingRules
    /\ pm_ret.fired = 2
    /\ branch_rules[1].condition_data = NotADict
    /\ pm_ret.phase = "CASE_ANALYSIS"

KnownConditionTypes ==
    { "sufficient_info", "analysis_complete", "client_interest", "message_count",
      "time_elapsed", "keyword_match", "slot_filled" }

\* C5: a fetched rule whose condition type is none of the seven known ones
\* evaluates to False, without raising, and is never the rule that selects
\* the next phase.
C5_UnknownTypeNeverFires ==
    Called =>
        \A i \in DOMAIN branch_rules :
            branch_rules[i].condition_type \notin KnownConditionTypes =>
                /\ EvaluateConditionTry(branch_rules[i], pm_call.message, pm_call.ai_response,
                                        pm_call.slots, context) = FF
                /\ pm_ret.fired # i

\* the rule of unknown type was evaluated first, and the rule after it decided
C5_Witness ==
    /\ Called
    /\ Len(branch_rules) = 2
    /\ branch_rules[1].condition_type = "sentiment"
    /\ pm_ret.evaluated = 2
    /\ pm_ret.fired = 2

\* the successor of a phase in the fixed sequence, None for the last phase
\* and for a phase outside the sequence
Successor(p) ==
    CASE p = "INFO_COLLECTION" -> "CASE_ANALYSIS"
      [] p = "CASE_ANALYSIS" -> "PRODUCT_RECOMMENDATION"
      [] p = "PRODUCT_RECOMMENDATION" -> "SALES_CONVERSION"
      [] OTHER -> None

\* auto-transition is enabled and the last context message is older than the timeout
TimedOut ==
    /\ workflow_config.auto_transition
    /\ context # << >>
    /\ "created_at" \in DOMAIN context[Len(context)]
    /\ Now - context[Len(context)].created_at > workflow_config.phase_timeout

\* C6: without a marker and without a firing rule, the phase changes only
\* when auto-transition is enabled and the last context message is older
\* than the timeout, and then to the immediate successor of the current
\* phase; from SALES_CONVERSION and from a phase outside the sequence the
\* result is the current phase.
C6_FallbackIsSequential ==
    (Called /\ ~CarriesMarker(pm_call.ai_response) /\ pm_ret.fired = 0) =>
        /\ pm_ret.phase \in { pm_call.current_phase, Successor(pm_call.current_phase) }
        /\ pm_ret.phase # pm_call.current_phase => TimedOut
        /\ Successor(pm_call.current_phase) = None => pm_ret.phase = pm_call.current_phase

\* no rule fired and the timeout moved the conversation one phase forward
C6_Witness ==
    /\ Called
    /\ pm_ret.fired = 0
    /\ pm_ret.auto_checked
    /\ pm_call.current_phase = "PRODUCT_RECOMMENDATION"
    /\ pm_ret.phase = "SALES_CONVERSION"

\* the number of user messages of a context whose entries all have a sender
UserCount(ctx) ==
    Cardinality({ i \in 1..Len(ctx) : "sender_type" \in DOMAIN ctx[i] /\ ctx[i].sender_type = "user" })

\* C7: for a well-formed context, a sufficient_info condition is true iff
\* the number of user messages is >= min_messages (3 when not given) and
\* every required field is present and truthy in the slots; and when the
\* only rule of the phase is a sufficient_info rule asking for 3 messages
\* and the context has 2 user messages, the rule does not fire, the
\* auto-transition check is consulted, and the current phase is returned
\* unless that check applies.
C7_SufficientInfo ==
    Called =>
        /\ \A r \in branch_flow.rows :
               (r.condition_type = "sufficient_info" /\ IsDict(r.condition_data)
                    /\ ~SenderKeyError(context)) =>
                   ( _check_sufficient_info(r.condition_data, pm_call.slots, context) = TT
                     <=> /\ UserCount(context) >= Get(r.condition_data, "min_messages", 3)
                         /\ \A f \in Get(r.condition_data, "required_fields", {}) :
                                f \in DOMAIN pm_call.slots /\ pm_call.slots[f] # "" )
        /\ ( /\ ~CarriesMarker(pm_call.ai_response)
             /\ Len(branch_rules) = 1
             /\ branch_rules[1].condition_type = "sufficient_info"
             /\ IsDict(branch_rules[1].condition_data)
             /\ Get(branch_rules[1].condition_data, "min_messages", 3) = 3
             /\ UserCount(context) = 2 ) =>
               /\ pm_ret.fired = 0
               /\ pm_ret.auto_checked
               /\ ~TimedOut => pm_ret.phase = pm_call.current_phase

\* INFO_COLLECTION, two user messages, no slots, a rule asking for three
\* messages: the check fell through to the auto-transition check
C7_Witness ==
    /\ Called
    /\ pm_call.current_phase = "INFO_COLLECTION"
    /\ pm_call.slots = << >>
    /\ UserCount(context) = 2
    /\ Len(branch_rules) = 1
    /\ branch_rules[1].condition_type = "sufficient_info"
    /\ Get(branch_rules[1].condition_data, "min_messages", 3) = 3
    /\ pm_ret.fired = 0
    /\ pm_ret.auto_checked
    /\ pm_ret.phase = "INFO_COLLECTION"


(***************************************************************************)
(* The RAG system (rag/rag_deepseek.py).                                   *)
(*                                                                         *)
(* A text is a sequence of words.  The content of a document is the        *)
(* sequence of the pieces content.split('.') yields, each piece stripped   *)
(* and taken as its words; a piece without words is an empty or            *)
(* whitespace-only sentence.                                               *)
(***************************************************************************)
RECURSIVE CharLen(_)
\* len() of the text whose words are joined by single spaces
CharLen(words) ==
    IF words = << >> THEN 0
    ELSE Len(Head(words)) + (IF Len(words) > 1 THEN 1 ELSE 0) + CharLen(Tail(words))

\* words[-n:]
LastWords(words, n) ==
    IF n >= Len(words) THEN words ELSE SubSeq(words, Len(words) - n + 1, Len(words))

RECURSIVE ChunkLoop(_, _, _, _, _, _)
\* the for loop of _chunk_document from sentence k on, and the final append
ChunkLoop(sentences, k, chunks, current_chunk, chunk_size, chunk_overlap) ==
    IF k > Len(sentences)
    THEN IF current_chunk # << >> THEN Append(chunks, current_chunk) ELSE chunks
    ELSE LET sentence == sentences[k] IN
         IF sentence = << >>
         THEN ChunkLoop(sentences, k + 1, chunks, current_chunk, chunk_size, chunk_overlap)
         ELSE IF CharLen(current_chunk) + CharLen(sentence) + 1 > chunk_size
         THEN IF current_chunk # << >>
              THEN ChunkLoop(sentences, k + 1, Append(chunks, current_chunk),
                             IF chunk_overlap > 0
                             THEN LastWords(current_chunk, chunk_overlap) \o sentence
                             ELSE sentence,
                             chunk_size, chunk_overlap)
              ELSE ChunkLoop(sentences, k + 1, chunks, sentence, chunk_size, chunk_overlap)
         ELSE ChunkLoop(sentences, k + 1, chunks, current_chunk \o sentence,
                        chunk_size, chunk_overlap)

\* a chunker that makes every non-empty sentence a chunk of its own
ChunkDocumentPerSentence(content, chunk_size, chunk_overlap) ==
    SelectSeq(content, LAMBDA sentence : sentence # << >>)

\* a chunker that does not append the buffer left after the last sentence
ChunkDocumentNoTrailing(content, chunk_size, chunk_overlap) ==
    LET chunks == ChunkLoop(content, 1, << >>, << >>, chunk_size, chunk_overlap)
    IN  SubSeq(chunks, 1, Len(chunks) - 1)

\* a chunker that starts the buffer after a split with the sentence alone,
\* whatever the overlap
ChunkDocumentWithoutSeed(content, chunk_size, chunk_overlap) ==
    ChunkLoop(content, 1, << >>, << >>, chunk_size, 0)

\* DeepSeekRAGSystem._chunk_document
_chunk_document(content, chunk_size, chunk_overlap) ==
    ChunkLoop(content, 1, << >>, << >>, chunk_size, chunk_overlap)


(***************************************************************************)
(* The index.  A vector is the embedding of a chunk text; a FAISS index is *)
(* the sequence of the vectors added to it; a persisted file is absent,    *)
(* readable ("ok", with its data) or unreadable ("corrupt").  initialize,  *)
(* update_knowledge_base and add_document are called one after the other;  *)
(* each is suspended at its awaits, where searches run and the process may *)
(* end.                                                                    *)
(***************************************************************************)
VARIABLES
    knowledge_base,    \* the active rows of legalbot.knowledge_base, newest first
    sentence_model,    \* DeepSeekRAGSystem.sentence_model is loaded
    faiss_index,       \* DeepSeekRAGSystem.faiss_index: [built, vectors]
    documents,         \* DeepSeekRAGSystem.documents, the chunk list
    index_file,        \* <index_dir>/legal_documents.index
    documents_file,    \* <index_dir>/documents.json
    rag_task,          \* the coroutine of the operation in progress: [pc, op, docs]
    last_return,       \* the operation that returned in the last step: [op, ret], and
                       \* the documents it rebuilt the index from, when it did
    last_search,       \* the search_documents call of the last step: [done, query, top_k,
                       \* results]
    last_save          \* what the last _save_index call was given, when it ended without
                       \* an exception: [done, vectors, chunks]

ragVars == << knowledge_base, sentence_model, faiss_index, documents, index_file,
              documents_file, rag_task, last_return, last_search, last_save >>

\* the configuration of the RAG system (the environment sets it)
rag_config == [chunk_size |-> 12, chunk_overlap |-> 1, top_k |-> 4, similarity_threshold |-> 70]

\* the contents of the documents: one sentence, two sentences that do not fit
\* into one chunk, and a text without any sentence
Contents ==
    { << << "tort", "law" >> >>,
      << << "contract", "law" >>, << "valid", "offer" >> >>,
      << << >> >> }

Queries == { "law", "offer" }

\* the top_k argument of search_documents: None (the default) or an integer
NoTopK == << >>
TopKs == { NoTopK } \cup { << k >> : k \in 0..MaxTopK }

\* sentence_model.encode(chunk), normalized
Encode(text) == [vec |-> text]

\* the inner product of the normalized embeddings, in hundredths: a chunk
\* with the word of the query is closest, a chunk about contracts is close to
\* a query about offers
Score(query, vector) ==
    IF Contains(vector.vec, query) THEN 90
    ELSE IF query = "offer" /\ Contains(vector.vec, "contract") THEN 75
    ELSE 50

\* the score FAISS reports for a missing neighbour (-3.4e38), with label -1
NoNeighbourScore == 0 - 1000

NoIndex == [built |-> FALSE, vectors |-> << >>]        \* faiss_index = None
IndexOf(vectors) == [built |-> TRUE, vectors |-> vectors]
\* faiss.IndexFlatIP(embedding_dim), nothing added
EmptyIndex == IndexOf(<< >>)

Absent == [st |-> "absent", data |-> << >>]
Corrupt == [st |-> "corrupt", data |-> << >>]
FileOf(data) == [st |-> "ok", data |-> data]

\* json.dump of the chunk list: a JSON array of objects, each the sequence of
\* its key/value pairs
json_dump(chunks) ==
    [i \in 1..Len(chunks) |->
        << << "id", chunks[i].id >>, << "original_id", chunks[i].original_id >>,
           << "content", chunks[i].content >> >>]

\* the value of a key of a JSON object
JsonValue(obj, key) == obj[CHOOSE i \in 1..Len(obj) : obj[i][1] = key][2]

\* json.load of documents.json: the list of the dicts of the JSON objects
json_load(data) ==
    [i \in 1..Len(data) |->
        [id |-> JsonValue(data[i], "id"), original_id |-> JsonValue(data[i], "original_id"),
         content |-> JsonValue(data[i], "content")]]

IdleTask == [pc |-> "idle", op |-> "none", docs |-> << >>]
NoReturn == [op |-> "none", ret |-> "none", rebuilt |-> FALSE, source |-> << >>]
Returned(op, ret) == [op |-> op, ret |-> ret, rebuilt |-> FALSE, source |-> << >>]
ReturnedRebuilt(op, ret, docs) == [op |-> op, ret |-> ret, rebuilt |-> TRUE, source |-> docs]
NoSave == [done |-> FALSE, vectors |-> << >>, chunks |-> << >>]
NoSearch == [done |-> FALSE, query |-> "", top_k |-> NoTopK, results |-> << >>]

RECURSIVE ProcessDocs(_, _)
\* the loops of _create_new_index over the documents and their chunks, from
\* document k on: the processed_docs
ProcessDocs(docs, k) ==
    IF k > Len(docs) THEN << >>
    ELSE LET doc == docs[k]
             chunks == _chunk_document(doc.content, rag_config.chunk_size,
                                       rag_config.chunk_overlap)
         IN  [i \in 1..Len(chunks) |-> [id |-> << doc.id, i - 1 >>, original_id |-> doc.id,
                                        content |-> chunks[i]]]
             \o ProcessDocs(docs, k + 1)

\* the embeddings of the processed chunks, in their order
Embeddings(processed_docs) ==
    [i \in 1..Len(processed_docs) |-> Encode(processed_docs[i].content)]

InitRag ==
    /\ knowledge_base = << >>
    /\ sentence_model = FALSE
    /\ faiss_index = NoIndex
    /\ documents = << >>
    /\ index_file = Absent
    /\ documents_file = Absent
    /\ rag_task = IdleTask
    /\ last_return = NoReturn
    /\ last_search = NoSearch
    /\ last_save = NoSave

\* _create_new_index up to its await of _load_documents_from_db
StartRebuild(op) ==
    /\ rag_task' = [pc |-> "query", op |-> op, docs |-> << >>]
    /\ last_return' = NoReturn

\* initialize(): the model is loaded, then _load_or_create_index reads the
\* two files when both exist; a failure of either read starts a rebuild
Initialize ==
    /\ ~sentence_model
    /\ rag_task.pc = "idle"
    /\ sentence_model' = TRUE
    /\ IF index_file.st # "absent" /\ documents_file.st # "absent"
       THEN IF index_file.st = "corrupt"
            THEN /\ StartRebuild("initialize")
                 /\ UNCHANGED << faiss_index, documents >>
            ELSE /\ faiss_index' = IndexOf(index_file.data)
                 /\ IF documents_file.st = "corrupt"
                    THEN /\ StartRebuild("initialize")
                         /\ UNCHANGED documents
                    ELSE /\ documents' = json_load(documents_file.data)
                         /\ last_return' = Returned("initialize", "None")
                         /\ UNCHANGED rag_task
       ELSE /\ StartRebuild("initialize")
            /\ UNCHANGED << faiss_index, documents >>
    /\ last_search' = NoSearch
    /\ UNCHANGED << knowledge_base, index_file, documents_file, last_save >>

\* update_knowledge_base(): _create_new_index up to its await
UpdateKnowledgeBase ==
    /\ sentence_model
    /\ rag_task.pc = "idle"
    /\ StartRebuild("update_knowledge_base")
    /\ last_search' = NoSearch
    /\ UNCHANGED << knowledge_base, sentence_model, faiss_index, documents, index_file,
                    documents_file, last_save >>

\* add_document(): up to the await of the INSERT
AddDocument ==
    /\ sentence_model
    /\ rag_task.pc = "idle"
    /\ Len(knowledge_base) < MaxDocs
    /\ \E content \in Contents :
          rag_task' = [pc |-> "insert", op |-> "add_document",
                       docs |-> << [id |-> 0, content |-> content] >>]
    /\ last_return' = NoReturn
    /\ last_search' = NoSearch
    /\ UNCHANGED << knowledge_base, sentence_model, faiss_index, documents, index_file,
                    documents_file, last_save >>

\* the INSERT of add_document commits and _create_new_index starts, or the
\* INSERT fails and add_document returns False
InsertDocument ==
    /\ rag_task.pc = "insert"
    /\ \/ /\ Len(knowledge_base) < MaxDocs
          /\ knowledge_base' =
                << [id |-> Len(knowledge_base) + 1, content |-> rag_task.docs[1].content] >>
                \o knowledge_base
          /\ StartRebuild("add_document")
       \/ /\ rag_task' = IdleTask
          /\ last_return' = Returned("add_document", "False")
          /\ UNCHANGED knowledge_base
    /\ last_search' = NoSearch
    /\ UNCHANGED << sentence_model, faiss_index, documents, index_file, documents_file, last_save >>

\* _load_documents_from_db: the query returns the active documents, newest
\* first; its failure is logged and the result is the empty list
LoadDocumentsFromDb ==
    /\ rag_task.pc = "query"
    /\ \E ok \in BOOLEAN :
          rag_task' = [rag_task EXCEPT !.pc = "resume",
                                       !.docs = IF ok THEN knowledge_base ELSE << >>]
    /\ last_return' = NoReturn
    /\ last_search' = NoSearch
    /\ UNCHANGED << knowledge_base, sentence_model, faiss_index, documents, index_file,
                    documents_file, last_save >>

\* _save_index: write_index, then the dump of the chunk list; an exception of
\* either is logged.  outcome: "ok"; "index" (write_index failed and left an
\* unreadable file); "open" (the index was written, documents.json could not
\* be opened and keeps its old content); "dump" (the index was written, the
\* dump failed and left an unreadable file)
SaveOutcomes == { "ok", "index", "open", "dump" }

\* a _save_index whose dump of the chunk list leaves out the last chunk
SaveIndexTruncated(outcome, index, chunks) ==
    /\ index_file' = IF outcome = "index" THEN Corrupt ELSE FileOf(index.vectors)
    /\ documents_file' =
           CASE outcome = "ok" -> FileOf(json_dump(SubSeq(chunks, 1, Len(chunks) - 1)))
             [] outcome = "dump" -> Corrupt
             [] OTHER -> documents_file
    /\ last_save' = IF outcome = "ok"
                    THEN [done |-> TRUE, vectors |-> index.vectors, chunks |-> chunks]
                    ELSE NoSave

_save_index(outcome, index, chunks) ==
    /\ index_file' = IF outcome = "index" THEN Corrupt ELSE FileOf(index.vectors)
    /\ documents_file' = CASE outcome = "ok" -> FileOf(json_dump(chunks))
                           [] outcome = "dump" -> Corrupt
                           [] OTHER -> documents_file
    /\ last_save' = IF outcome = "ok"
                    THEN [done |-> TRUE, vectors |-> index.vectors, chunks |-> chunks]
                    ELSE NoSave

\* the return of the operation that called _create_new_index
ReturnOf(op) == IF op = "initialize" THEN "None" ELSE "True"

\* _create_new_index whose empty branches install the empty index and leave
\* the chunk list as it was
CreateNewIndexKeepingChunks ==
    /\ rag_task.pc = "resume"
    /\ LET docs == rag_task.docs
           processed_docs == ProcessDocs(docs, 1)
           embeddings == Embeddings(processed_docs)
       IN  IF docs = << >> \/ embeddings = << >>
           THEN /\ faiss_index' = EmptyIndex
                /\ UNCHANGED << documents, index_file, documents_file, last_save >>
           ELSE /\ faiss_index' = IndexOf(embeddings)
                /\ documents' = processed_docs
                /\ \E outcome \in SaveOutcomes :
                      _save_index(outcome, IndexOf(embeddings), processed_docs)
    /\ rag_task' = IdleTask
    /\ last_return' = ReturnedRebuilt(rag_task.op, ReturnOf(rag_task.op), rag_task.docs)
    /\ last_search' = NoSearch
    /\ UNCHANGED << knowledge_base, sentence_model >>

\* _create_new_index after its await: the rest of the coroutine runs without
\* another suspension, and the calling operation returns
CreateNewIndex ==
    /\ rag_task.pc = "resume"
    /\ LET docs == rag_task.docs
           processed_docs == ProcessDocs(docs, 1)
           embeddings == Embeddings(processed_docs)
       IN  IF docs = << >> \/ embeddings = << >>
           THEN /\ faiss_index' = EmptyIndex
                /\ documents' = << >>
                /\ UNCHANGED << index_file, documents_file, last_save >>
           ELSE /\ faiss_index' = IndexOf(embeddings)
                /\ documents' = processed_docs
                /\ \E outcome \in SaveOutcomes :
                      _save_index(outcome, IndexOf(embeddings), processed_docs)
    /\ rag_task' = IdleTask
    /\ last_return' = ReturnedRebuilt(rag_task.op, ReturnOf(rag_task.op), rag_task.docs)
    /\ last_search' = NoSearch
    /\ UNCHANGED << knowledge_base, sentence_model >>

\* faiss_index.search(query_embedding, top_k): the positions of the top_k
\* vectors by descending score
NearestNeighbours(query, vectors, top_k) ==
    LET n == Len(vectors)
        \* vector j comes before vector i in the ranking
        Before(j, i) ==
            \/ Score(query, vectors[j]) > Score(query, vectors[i])
            \/ Score(query, vectors[j]) = Score(query, vectors[i]) /\ j < i
        ranked == [r \in 1..n |->
                      CHOOSE i \in 1..n :
                          Cardinality({ j \in 1..n : Before(j, i) }) = r - 1]
    IN  SubSeq(ranked, 1, IF top_k < n THEN top_k ELSE n)

RECURSIVE FilterResultsNoThreshold(_, _, _, _, _, _)
\* the loop of search_documents without its comparison with the threshold
FilterResultsNoThreshold(query, idx, k, top_k, index, chunks) ==
    IF k > top_k \/ k > Len(idx) THEN << >>
    ELSE << [doc |-> chunks[IF idx[k] <= Len(chunks) THEN idx[k] ELSE Len(chunks)],
             similarity_score |-> Score(query, index.vectors[idx[k]])] >>
         \o FilterResultsNoThreshold(query, idx, k + 1, top_k, index, chunks)

RECURSIVE FilterResults(_, _, _, _, _, _)
\* the loop of search_documents over the top_k scores and indices; FAISS
\* fills the places beyond the vectors of the index with missing neighbours
FilterResults(query, idx, k, top_k, index, chunks) ==
    IF k > top_k THEN << >>
    ELSE LET found == k <= Len(idx)
             score == IF found THEN Score(query, index.vectors[idx[k]])
                      ELSE NoNeighbourScore
             rest == FilterResults(query, idx, k + 1, top_k, index, chunks)
         IN  IF score >= rag_config.similarity_threshold /\ (found => idx[k] <= Len(chunks))
             THEN << [doc |-> IF found THEN chunks[idx[k]] ELSE chunks[Len(chunks)],
                      similarity_score |-> score] >> \o rest
             ELSE rest

\* top_k = top_k or self.config['top_k']
TopKOrConfig(top_k) ==
    IF top_k = NoTopK \/ top_k[1] = 0 THEN rag_config.top_k ELSE top_k[1]

\* DeepSeekRAGSystem.search_documents
search_documents(query, top_k, index, chunks) ==
    IF ~index.built \/ chunks = << >> THEN << >>
    ELSE FilterResults(query, NearestNeighbours(query, index.vectors, TopKOrConfig(top_k)),
                       1, TopKOrConfig(top_k), index, chunks)

\* a search_documents call; it has no suspension point
SearchDocuments ==
    /\ \E query \in Queries, top_k \in TopKs :
          last_search' = [done |-> TRUE, query |-> query, top_k |-> top_k,
                          results |-> search_documents(query, top_k, faiss_index,
                                                       documents)]
    /\ last_return' = Returned("search_documents", "results")
    /\ UNCHANGED << knowledge_base, sentence_model, faiss_index, documents, index_file,
                    documents_file, rag_task, last_save >>

\* the process ends and a new one starts: memory is lost, the database and
\* the files stay
Restart ==
    /\ sentence_model
    /\ sentence_model' = FALSE
    /\ faiss_index' = NoIndex
    /\ documents' = << >>
    /\ rag_task' = IdleTask
    /\ last_return' = NoReturn
    /\ last_search' = NoSearch
    /\ UNCHANGED << knowledge_base, index_file, documents_file, last_save >>

(***************************************************************************)
(* Properties of the index.                                                *)
(***************************************************************************)
\* vector i of the index is the embedding of chunk i, and there are as many
\* vectors as chunks
Aligned(index, chunks) ==
    /\ Len(index.vectors) = Len(chunks)
    /\ \A i \in 1..Len(chunks) : index.vectors[i] = Encode(chunks[i].content)

\* C8: in every reachable state, the states at the suspension points of
\* load, rebuild and add_document included, the index has as many vectors as
\* the chunk list has chunks and vector i belongs to chunk i.
C8_IndexAlignedWithChunks == Aligned(faiss_index, documents)

\* C9: when the load of the persisted index has ended, by reading the files
\* or by the rebuild that a failed read starts, the index and the chunk list
\* in memory have the same length and belong together.
C9_LoadNeverEndsMismatched ==
    last_return.op = "initialize" => Aligned(faiss_index, documents)

\* C10: a rebuild from an empty document set returns without raising and
\* leaves an index without vectors and an empty chunk list, and a search on
\* that index returns the empty list.
C10_EmptyRebuildAndSearch ==
    /\ (last_return.rebuilt /\ last_return.source = << >>) =>
           /\ faiss_index = EmptyIndex
           /\ documents = << >>
           /\ last_return.ret # "False"
    /\ (last_search.done /\ faiss_index = EmptyIndex /\ documents = << >>) =>
           last_search.results = << >>

\* a search ran on the empty index that update_knowledge_base published after
\* chunks had been indexed, and returned nothing
C10_Witness ==
    /\ last_search.done
    /\ last_search.results = << >>
    /\ faiss_index = EmptyIndex
    /\ documents = << >>
    /\ index_file.st = "ok"
    /\ index_file.data # << >>

\* the number of results the caller of the last search asked for
AskedTopK == IF last_search.top_k = NoTopK THEN rag_config.top_k ELSE last_search.top_k[1]

\* the results of the last search are at most limit many, each with a score
\* of at least the threshold, by non-increasing score
SearchBoundedBy(limit) ==
    LET results == last_search.results IN
    /\ Len(results) <= limit
    /\ \A i \in 1..Len(results) :
           results[i].similarity_score >= rag_config.similarity_threshold
    /\ \A i, j \in 1..Len(results) :
           i < j => results[i].similarity_score >= results[j].similarity_score

\* C11 (as stated): for every query and every requested top_k,
\* search_documents returns at most top_k results, every result has a
\* similarity_score of at least the threshold, and the results are in the
\* order of the nearest-neighbour ranking, by non-increasing score.
C11_SearchBounded == last_search.done => SearchBoundedBy(AskedTopK)

\* C11 (amended): for every query and every requested top_k of at least 1,
\* search_documents returns at most top_k results, and at most the configured
\* top_k when the requested top_k is None or 0; every result has a
\* similarity_score of at least the threshold, and the results are in the
\* order of the nearest-neighbour ranking, by non-increasing score.
C11_SearchBoundedByEffectiveTopK ==
    last_search.done =>
        SearchBoundedBy(IF last_search.top_k \in { NoTopK, << 0 >> }
                        THEN rag_config.top_k ELSE last_search.top_k[1])

\* a search for three neighbours among three vectors returned two of them,
\* the closer one first, and dropped the one below the threshold
C11_Witness ==
    /\ last_search.done
    /\ last_search.top_k = << 3 >>
    /\ Len(faiss_index.vectors) = 3
    /\ Len(last_search.results) = 2
    /\ last_search.results[1].similarity_score > last_search.results[2].similarity_score
    /\ last_search.results[1].doc.id[2] > last_search.results[2].doc.id[2]

ReadFailed ==
    /\ rag_task.pc = "resume"
    /\ rag_task.docs = << >>
    /\ knowledge_base # << >>

\* C39: a rebuild that cannot read the source documents leaves the published
\* index and chunk list unchanged, and update_knowledge_base and add_document
\* report it as a failure: a read error never replaces a working index by an
\* empty one.
C39_FailedReadKeepsPublishedIndex ==
    [][(ReadFailed /\ rag_task'.pc = "idle") =>
            /\ faiss_index' = faiss_index
            /\ documents' = documents
            /\ (rag_task.op # "initialize" => last_return'.ret = "False")]_ragVars

\* C40: after every completed rebuild the persisted index equals the one in
\* memory: the files a new process would load hold the chunk list and as many
\* vectors as the most recent rebuild produced, an empty rebuild included.
C40_PersistedIndexIsLatestRebuild ==
    (/\ rag_task.pc = "idle"
     /\ last_return.rebuilt
     /\ index_file.st = "ok"
     /\ documents_file.st = "ok") =>
            /\ json_load(documents_file.data) = documents
            /\ Len(index_file.data) = Len(faiss_index.vectors)


(***************************************************************************)
(* The RAG prompt (rag/rag_deepseek.py, generate_response_with_rag).  The  *)
(* prompt is built from the search results before the only await of the    *)
(* coroutine, the DeepSeek call, and the return value is made of locals:   *)
(* what runs during that await does not change either, and the call is one *)
(* step.  A prompt is the sequence of the parts of the template.           *)
(***************************************************************************)
VARIABLES
    last_prompt        \* the generate_response_with_rag call of the last step: [done,
                       \* query, context, prompt, ret]

promptVars == << last_prompt >>

\* the context argument: its default and a conversation context
RagContexts == { "", "user: hello" }

NoPrompt == [done |-> FALSE, query |-> "", context |-> "", prompt |-> << >>, ret |-> << >>]

\* doc['title']: a chunk record carries the title of the knowledge_base row
\* it was cut from
TitleOf(doc) == << "title", doc.original_id >>

\* relevant_docs[:n]
FirstDocs(relevant_docs, n) ==
    SubSeq(relevant_docs, 1, IF Len(relevant_docs) < n THEN Len(relevant_docs) ELSE n)

\* a retrieved_context made of all the relevant documents
RetrievedContextUncapped(relevant_docs) ==
    [i \in 1..Len(relevant_docs) |->
        [Document |-> TitleOf(relevant_docs[i].doc), Content |-> relevant_docs[i].doc.content]]

\* the retrieved_context: "Document: {title}\nContent: {content}" for each of
\* relevant_docs[:3], joined by blank lines
RetrievedContext(relevant_docs) ==
    LET top == FirstDocs(relevant_docs, 3)
    IN  [i \in 1..Len(top) |->
            [Document |-> TitleOf(top[i].doc), Content |-> top[i].doc.content]]

\* DeepSeekRAGSystem._build_rag_prompt: the f-string, part by part
_build_rag_prompt(query, rag_context, retrieved_context) ==
    << [section |-> "You are a legal AI assistant. Use the following context", text |-> << >>],
       [section |-> "Retrieved Legal Documents:", text |-> retrieved_context],
       [section |-> "Conversation Context:", text |-> << rag_context >>],
       [section |-> "User Question:", text |-> << query >>],
       [section |-> "Please provide a comprehensive answer based on the retrieved documents",
        text |-> << >>],
       [section |-> "Response:", text |-> << >>] >>

\* a generate_response_with_rag call: the search, the prompt, and the
\* DeepSeek call, which returns the answer or raises
GenerateResponseWithRag ==
    /\ \E query \in Queries, rag_context \in RagContexts, api \in { "ok", "HTTPError" } :
          LET relevant_docs == search_documents(query, NoTopK, faiss_index, documents)
              retrieved_context == RetrievedContext(relevant_docs)
              prompt == _build_rag_prompt(query, rag_context, retrieved_context)
          IN  /\ last_search' = [done |-> TRUE, query |-> query, top_k |-> NoTopK,
                                 results |-> relevant_docs]
              /\ last_prompt' =
                    [done |-> TRUE, query |-> query, context |-> rag_context, prompt |-> prompt,
                     ret |-> IF api = "ok"
                             THEN [response |-> << "answer" >>,
                                   retrieved_documents |-> relevant_docs,
                                   context_used |-> retrieved_context]
                             ELSE [response |-> << "I apologize" >>,
                                   retrieved_documents |-> << >>,
                                   context_used |-> << >>,
                                   error |-> api]]
    /\ last_return' = Returned("generate_response_with_rag", "dict")
    /\ UNCHANGED << knowledge_base, sentence_model, faiss_index, documents, index_file,
                    documents_file, rag_task, last_save >>

\* C23: the prompt of generate_response_with_rag holds at most 3 retrieved
\* chunks, the first 3 results of the search in their rank order, none of
\* them scoring below a result left out, each with its title and content;
\* and the prompt has, in this order, the framing instruction, the retrieved
\* documents, the conversation context, the user question as given and the
\* instruction to answer from the documents.
C23_PromptHasTopThreeInOrder ==
    last_prompt.done =>
        LET results == last_search.results
            prompt == last_prompt.prompt
            shown == prompt[2].text
        IN  /\ Len(shown) <= 3
            /\ Len(shown) = IF Len(results) < 3 THEN Len(results) ELSE 3
            /\ \A i \in 1..Len(shown) :
                   /\ shown[i] = [Document |-> TitleOf(results[i].doc),
                                  Content |-> results[i].doc.content]
                   /\ \A j \in 1..Len(results) :
                          i < j => results[i].similarity_score >= results[j].similarity_score
            /\ [k \in 1..5 |-> prompt[k].section] =
                   << "You are a legal AI assistant. Use the following context",
                      "Retrieved Legal Documents:",
                      "Conversation Context:",
                      "User Question:",
                      "Please provide a comprehensive answer based on the retrieved documents" >>
            /\ prompt[3].text = << last_prompt.context >>
            /\ prompt[4].text = << last_prompt.query >>

\* a search found four chunks and the prompt was built from the first three
C23_Witness ==
    /\ last_prompt.done
    /\ Len(last_search.results) = 4
    /\ Len(last_prompt.prompt[2].text) = 3


(***************************************************************************)
(* Batch processing (py_consumer/handlers/llm_request.py).                 *)
(*                                                                         *)
(* process_batch_requests wraps every request into a task that enters      *)
(* process_request under an asyncio.Semaphore of max_concurrent permits    *)
(* and gathers the results by position.  A task runs from one suspension   *)
(* point to the next without interruption; a request is in flight while    *)
(* it is suspended inside process_request.  The ready queue of the event   *)
(* loop is first-in first-out: the tasks take their first step in the      *)
(* order of the list, before any task that was suspended is resumed.       *)
(***************************************************************************)
VARIABLES
    max_concurrent,    \* processing.max_concurrent_requests
    llm_initialized,   \* LLMRequestHandler.initialized
    batch_requests,    \* the requests argument of process_batch_requests
    batch_pc,          \* "idle", "gather" (awaiting asyncio.gather) or "returned"
    semaphore,         \* the asyncio.Semaphore: [value, waiters], a waiter [task, done]
    task_pc,           \* per task: "created", "waiting", "inside" or "done"
    task_exc,          \* per task: the exception process_request raised, or None
    task_result,       \* per task: the result asyncio.gather keeps at its position
    batch_result       \* the list process_batch_requests returned

batchVars == << max_concurrent, llm_initialized, batch_requests, batch_pc, semaphore,
                task_pc, task_exc, task_result, batch_result >>

\* the request at position k of a batch: well-formed, without 'conversation_id',
\* or without 'id'
RequestsAt(k) ==
    { [id |-> "r" \o ToString(k), conversation_id |-> "c" \o ToString(k),
       message |-> "hello"],
      [id |-> "r" \o ToString(k), message |-> "hello"],
      [conversation_id |-> "c" \o ToString(k), message |-> "hello"] }

Batches ==
    UNION { { b \in [1..n -> UNION { RequestsAt(k) : k \in 1..n }] :
                \A k \in 1..n : b[k] \in RequestsAt(k) } : n \in 1..MaxRequests }

Tasks == 1..Len(batch_requests)

NoResult == [pending |-> TRUE]

InitBatch ==
    /\ max_concurrent \in 1..MaxConcurrent
    /\ llm_initialized \in BOOLEAN
    /\ batch_requests \in Batches
    /\ batch_pc = "idle"
    /\ semaphore = [value |-> 0, waiters |-> << >>]
    /\ task_pc = << >>
    /\ task_exc = << >>
    /\ task_result = << >>
    /\ batch_result = << >>

\* Semaphore.locked()
SemaphoreNeverLocked(sem) == FALSE

Locked(sem) == sem.value = 0 \/ sem.waiters # << >>

\* Semaphore._wake_up_next(): the first waiter whose future is not done gets
\* the permit and its future is set
WakeUpNext(sem) ==
    IF \E w \in 1..Len(sem.waiters) : ~sem.waiters[w].done
    THEN LET w == CHOOSE x \in 1..Len(sem.waiters) :
                      /\ ~sem.waiters[x].done
                      /\ \A y \in 1..(x - 1) : sem.waiters[y].done
         IN  [value |-> sem.value - 1,
              waiters |-> [sem.waiters EXCEPT ![w].done = TRUE]]
    ELSE sem

\* Semaphore.release()
Release(sem) == WakeUpNext([sem EXCEPT !.value = @ + 1])

\* the exit of 'async with semaphore' that gives the permit back only when
\* the request did not fail
SemaphoreExitOnSuccess(sem, failed) == IF failed THEN sem ELSE Release(sem)

\* the exit of 'async with semaphore': the permit is given back whether the
\* body returned a response or an error entry
SemaphoreExit(sem, failed) == Release(sem)

\* the response process_request returns
Response(request) ==
    [content |-> << "reply", request.conversation_id >>, next_phase |-> "INFO_COLLECTION"]

\* process_single without its except branch: the exception leaves the task and
\* asyncio.gather(return_exceptions=True) keeps the exception object
ProcessSingleUncaught(request, exc) ==
    IF exc = None THEN Response(request) ELSE [exception |-> exc]

\* process_single: the response of process_request, or the error entry of
\* its except branch
process_single(request, exc) ==
    IF exc = None THEN Response(request)
    ELSE [error |-> exc, request_id |-> Get(request, "id", None)]

\* the task of request i leaves process_with_semaphore with the outcome of
\* process_request: its result is kept and its permit is given back
TaskEnds(i, exc, sem) ==
    /\ task_pc' = [task_pc EXCEPT ![i] = "done"]
    /\ task_exc' = [task_exc EXCEPT ![i] = exc]
    /\ task_result' = [task_result EXCEPT ![i] = process_single(batch_requests[i], exc)]
    /\ semaphore' = SemaphoreExit(sem, exc # None)

\* the task of request i, holding a permit, enters process_request and runs to
\* its first suspension: the handler is initialized when it was not, and a
\* request without 'conversation_id' raises KeyError before any await
EntersProcessRequest(i, sem) ==
    \E init_ok \in (IF llm_initialized THEN { TRUE } ELSE BOOLEAN) :
        IF ~init_ok
        THEN /\ TaskEnds(i, "InitializeError", sem)
             /\ UNCHANGED llm_initialized
        ELSE /\ llm_initialized' = TRUE
             /\ IF "conversation_id" \notin DOMAIN batch_requests[i]
                THEN TaskEnds(i, "KeyError", sem)
                ELSE /\ task_pc' = [task_pc EXCEPT ![i] = "inside"]
                     /\ semaphore' = sem
                     /\ UNCHANGED << task_exc, task_result >>

\* process_batch_requests up to its await of asyncio.gather: the semaphore and
\* one task per request are created
ProcessBatchRequests ==
    /\ batch_pc = "idle"
    /\ batch_pc' = "gather"
    /\ semaphore' = [value |-> max_concurrent, waiters |-> << >>]
    /\ task_pc' = [i \in Tasks |-> "created"]
    /\ task_exc' = [i \in Tasks |-> None]
    /\ task_result' = [i \in Tasks |-> NoResult]
    /\ UNCHANGED << max_concurrent, llm_initialized, batch_requests, batch_result >>

\* every task has taken its first step
AllStarted == \A j \in Tasks : task_pc[j] # "created"

\* the first step of a task: Semaphore.acquire() takes a permit, or queues the
\* task when the semaphore is locked
TaskStarts(i) ==
    /\ batch_pc = "gather"
    /\ task_pc[i] = "created"
    /\ \A j \in 1..(i - 1) : task_pc[j] # "created"
    /\ IF Locked(semaphore)
       THEN /\ semaphore' = [semaphore EXCEPT
                                !.waiters = Append(@, [task |-> i, done |-> FALSE])]
            /\ task_pc' = [task_pc EXCEPT ![i] = "waiting"]
            /\ UNCHANGED << llm_initialized, task_exc, task_result >>
       ELSE EntersProcessRequest(i, [semaphore EXCEPT !.value = @ - 1])
    /\ UNCHANGED << max_concurrent, batch_requests, batch_pc, batch_result >>

\* a waiting task whose future was set goes on: it leaves the queue, passes a
\* free permit on, and enters process_request
WaiterResumes(i) ==
    /\ batch_pc = "gather"
    /\ AllStarted
    /\ task_pc[i] = "waiting"
    /\ \E w \in 1..Len(semaphore.waiters) :
          /\ semaphore.waiters[w] = [task |-> i, done |-> TRUE]
          /\ LET left == [semaphore EXCEPT
                             !.waiters = SubSeq(@, 1, w - 1) \o SubSeq(@, w + 1, Len(@))]
                 sem == IF left.value > 0 THEN WakeUpNext(left) ELSE left
             IN  EntersProcessRequest(i, sem)
    /\ UNCHANGED << max_concurrent, batch_requests, batch_pc, batch_result >>

\* process_request of request i ends after its awaits: it returns its
\* response, or raises (no conversation, no provider, a database or provider
\* failure)
ProcessRequestEnds(i) ==
    /\ batch_pc = "gather"
    /\ AllStarted
    /\ task_pc[i] = "inside"
    /\ \E exc \in { None, "ValueError" } : TaskEnds(i, exc, semaphore)
    /\ UNCHANGED << max_concurrent, llm_initialized, batch_requests, batch_pc, batch_result >>

\* asyncio.gather returns the results by position once every task is done
GatherReturns ==
    /\ batch_pc = "gather"
    /\ \A i \in Tasks : task_pc[i] = "done"
    /\ batch_pc' = "returned"
    /\ batch_result' = [i \in Tasks |-> task_result[i]]
    /\ UNCHANGED << max_concurrent, llm_initialized, batch_requests, semaphore, task_pc,
                    task_exc, task_result >>

(***************************************************************************)
(* Properties of batch processing.                                         *)
(***************************************************************************)
\* the requests inside process_request
InFlight == { i \in DOMAIN task_pc : task_pc[i] = "inside" }

\* the tasks queued at the semaphore whose future is not set
Queued == { i \in DOMAIN task_pc :
               \E w \in 1..Len(semaphore.waiters) :
                   semaphore.waiters[w] = [task |-> i, done |-> FALSE] }

\* the tasks whose future is set and that have not run since
Woken == { i \in DOMAIN task_pc :
              \E w \in 1..Len(semaphore.waiters) :
                  semaphore.waiters[w] = [task |-> i, done |-> TRUE] }

\* C13: during process_batch_requests the number of requests inside
\* process_request never exceeds max_concurrent, and a request waits at the
\* semaphore only while no permit is free: the permits in use, handed over
\* and free add up to max_concurrent.
C13_InFlightBounded ==
    batch_pc = "gather" =>
        /\ Cardinality(InFlight) <= max_concurrent
        /\ semaphore.value >= 0
        /\ Cardinality(InFlight) + Cardinality(Woken) + semaphore.value = max_concurrent
        /\ Queued # {} => semaphore.value = 0

\* as many requests as there are permits are in flight and another request
\* waits for a permit
C13_Witness ==
    /\ batch_pc = "gather"
    /\ max_concurrent = MaxConcurrent
    /\ Cardinality(InFlight) = max_concurrent
    /\ Queued # {}

\* C14: the list process_batch_requests returns has one entry per request;
\* the entry of a request whose processing raised is an error entry with
\* 'error' and 'request_id' at the position of that request, and the entry
\* of every other request is the response to that request.
C14_FailuresIsolated ==
    batch_pc = "returned" =>
        /\ Len(batch_result) = Len(batch_requests)
        /\ \A i \in Tasks :
              IF task_exc[i] # None
              THEN /\ DOMAIN batch_result[i] = { "error", "request_id" }
                   /\ batch_result[i].error = task_exc[i]
                   /\ batch_result[i].request_id = Get(batch_requests[i], "id", None)
              ELSE batch_result[i] = Response(batch_requests[i])

\* a batch returned whose first request raised after its awaits, whose second
\* request raised before any await, and whose third request got its response
C14_Witness ==
    /\ batch_pc = "returned"
    /\ Len(batch_result) = 3
    /\ task_exc[1] = "ValueError"
    /\ task_exc[2] = "KeyError"
    /\ task_exc[3] = None
    /\ batch_result[3] = Response(batch_requests[3])

Digits == { "0", "1", "2", "3", "4", "5", "6", "7", "8", "9" }
Letters == { "a", "b", "c", "h", "i", "m", "o", "q" }
\* \w
WordChars == Digits \cup Letters \cup { "_" }
\* [\w.-]
EmailChars == WordChars \cup { ".", "-" }
\* [\d\s-]
PhoneChars == Digits \cup { " ", "-" }

RECURSIVE RunEnd(_, _, _)
\* the position after the longest run of characters of a class from i on
RunEnd(s, i, class) ==
    IF i <= Len(s) /\ s[i] \in class THEN RunEnd(s, i + 1, class) ELSE i

\* EMAIL_RE = [\w.-]+@[\w.-]+ matched at i
EmailMatchEnd(s, i) ==
    LET at == RunEnd(s, i, EmailChars)
        end == RunEnd(s, at + 1, EmailChars)
    IN  IF at > i /\ at <= Len(s) /\ s[at] = "@" /\ end > at + 1 THEN end - 1 ELSE 0

\* PHONE_RE = (\+?\d[\d\s-]{7,}\d) matched at i: the greedy run gives back
\* characters until it is followed by a digit
PhoneMatchEnd(s, i) ==
    LET first == IF s[i] = "+" THEN i + 1 ELSE i
    IN  IF first <= Len(s) /\ s[first] \in Digits
        THEN LET run == RunEnd(s, first + 1, PhoneChars)
                 ends == { e \in (first + 8)..(run - 1) : s[e] \in Digits }
             IN  IF ends = {} THEN 0 ELSE CHOOSE e \in ends : \A f \in ends : f <= e
        ELSE 0

\* \b before position i
WordBoundary(s, i) ==
    (i > 1 /\ s[i - 1] \in WordChars) # (i <= Len(s) /\ s[i] \in WordChars)

\* the characters from position from to position to are digits
AllDigits(s, from, to) == to <= Len(s) /\ \A k \in from..to : s[k] \in Digits

\* DATE_RE = \b(\d{4}-\d{1,2}-\d{1,2})\b matched at i
DateMatchEnd(s, i) ==
    LET matches(m, d) ==
            /\ WordBoundary(s, i)
            /\ AllDigits(s, i, i + 3)
            /\ i + 4 <= Len(s) /\ s[i + 4] = "-"
            /\ AllDigits(s, i + 5, i + 4 + m)
            /\ i + 5 + m <= Len(s) /\ s[i + 5 + m] = "-"
            /\ AllDigits(s, i + 6 + m, i + 5 + m + d)
            /\ WordBoundary(s, i + 6 + m + d)
        found == { md \in (1..2) \X (1..2) : matches(md[1], md[2]) }
    IN  IF found = {} THEN 0
        ELSE LET md == CHOOSE x \in found :
                           \A y \in found : y[1] < x[1] \/ (y[1] = x[1] /\ y[2] <= x[2])
             IN  i + 5 + md[1] + md[2]

\* the end of the match of a compiled pattern of SlotExtractor at i
MatchEnd(pattern, s, i) ==
    CASE pattern = "EMAIL_RE" -> EmailMatchEnd(s, i)
      [] pattern = "PHONE_RE" -> PhoneMatchEnd(s, i)
      [] pattern = "DATE_RE" -> DateMatchEnd(s, i)

\* pattern.search(s): the match at the leftmost start, or no match
re_search(pattern, s) ==
    LET starts == { i \in 1..Len(s) : MatchEnd(pattern, s, i) # 0 }
    IN  IF starts = {} THEN << >>
        ELSE LET i == CHOOSE x \in starts : \A y \in starts : x <= y
             IN  << SubSeq(s, i, MatchEnd(pattern, s, i)) >>

\* SlotExtractor.extract_slots: the slots dict, with the keys that matched
extract_slots(message) ==
    LET email_match == re_search("EMAIL_RE", message)
        phone_match == re_search("PHONE_RE", message)
        date_match == re_search("DATE_RE", message)
        email == IF email_match # << >> THEN [email |-> email_match[1]] ELSE << >>
        phone == IF phone_match # << >> THEN [phone |-> phone_match[1]] ELSE << >>
        dates == IF date_match # << >> THEN [dates |-> << date_match[1] >>] ELSE << >>
    IN  email @@ phone @@ dates

VARIABLES
    slot_parts,        \* the parts the message was written from, in their order
    slot_called,       \* extract_slots has returned
    slot_result        \* the slots it returned

slotVars == << slot_parts, slot_called, slot_result >>

\* the parts of a message
PlainEmail == << "a", "@", "b", ".", "c", "o", "m" >>
NumericEmail == << "1", "2", "3", "4", "5", "6", "7", "8", "9", "@", "q", "q", ".", "c", "o", "m" >>
MobilePhone == << "1", "3", "8", "0", "0", "1", "3", "8", "0", "0", "0" >>
EightDigits == << "1", "2", "3", "4", "5", "6", "7", "8" >>
PrefixedPhone == << "+", "1", "2", " ", "3", "4", "5", "-", "6", "7", "8", "9" >>
LongDate == << "2", "0", "2", "4", "-", "0", "1", "-", "0", "5" >>
ShortDate == << "2", "0", "2", "5", "-", "2", "-", "6" >>
Greeting == << "h", "i" >>

Emails == { PlainEmail, NumericEmail }
Phones == { MobilePhone, PrefixedPhone }
DigitRuns == { MobilePhone, EightDigits }
Dates == { LongDate, ShortDate }
Parts == Emails \cup Phones \cup DigitRuns \cup Dates \cup { Greeting }

RECURSIVE MessageOf(_)
\* the message: the parts, separated by ", "
MessageOf(parts) ==
    IF parts = << >> THEN << >>
    ELSE IF Len(parts) = 1 THEN parts[1]
    ELSE parts[1] \o << ",", " " >> \o MessageOf(Tail(parts))

SlotMessages == UNION { [1..n -> Parts] : n \in 0..MaxParts }

InitSlots ==
    /\ slot_parts \in SlotMessages
    /\ slot_called = FALSE
    /\ slot_result = << >>

\* a call of extract_slots(message, current_phase)
ExtractSlots ==
    /\ ~slot_called
    /\ slot_called' = TRUE
    /\ slot_result' = extract_slots(MessageOf(slot_parts))
    /\ UNCHANGED slot_parts

(***************************************************************************)
(* Properties of the slot extractor.                                       *)
(***************************************************************************)
\* the parts of the message that are of a kind, in their order
RECURSIVE PartsOf(_, _)
PartsOf(parts, kind) ==
    IF parts = << >> THEN << >>
    ELSE (IF Head(parts) \in kind THEN << Head(parts) >> ELSE << >>)
         \o PartsOf(Tail(parts), kind)

\* C16: for a message with several ISO-like dates, extract_slots returns a
\* 'dates' list with every one of them, in the order of their appearance.
C16_AllDatesCaptured ==
    (slot_called /\ Len(PartsOf(slot_parts, Dates)) >= 2) =>
        /\ "dates" \in DOMAIN slot_result
        /\ slot_result.dates = PartsOf(slot_parts, Dates)

\* C17: for every message with a valid email and a valid phone number,
\* extract_slots returns an 'email' slot equal to that email and a 'phone'
\* slot equal to that phone number, whichever of the two comes first.
C17_EmailAndPhoneCaptured ==
    (/\ slot_called
     /\ Len(slot_parts) = 2
     /\ Len(PartsOf(slot_parts, Emails)) = 1
     /\ Len(PartsOf(slot_parts, Phones)) = 1) =>
        /\ DOMAIN slot_result = { "email", "phone" }
        /\ slot_result.email = PartsOf(slot_parts, Emails)[1]
        /\ slot_result.phone = PartsOf(slot_parts, Phones)[1]

\* C18: a sequence of 8 or more digits is recognized as a phone, a sequence
\* of exactly 8 digits included; slots that did not match are left out, and
\* a message where nothing matches yields the empty mapping.
C18_EightDigitsArePhone ==
    slot_called =>
        /\ (Len(slot_parts) = 1 /\ slot_parts[1] \in DigitRuns) =>
               slot_result = [phone |-> slot_parts[1]]
        /\ (\A k \in 1..Len(slot_parts) : slot_parts[k] = Greeting) =>
               slot_result = << >>


(***************************************************************************)
(* The chunker on its own: _chunk_document applied to a text under a       *)
(* configuration.                                                          *)
(***************************************************************************)
VARIABLES
    chunk_content,     \* the content argument: the pieces of content.split('.')
    chunk_config,      \* self.config: [chunk_size, chunk_overlap]
    chunk_called,      \* _chunk_document has returned
    chunk_result       \* the chunks it returned

chunkVars == << chunk_content, chunk_config, chunk_called, chunk_result >>

\* the pieces between the full stops of a text: one-word sentences, a
\* two-word sentence, and a piece that is empty or white space
Sentences == { << "A" >>, << "B" >>, << "C" >>, << "dd", "e" >>, << >> }

ChunkContents == UNION { [1..n -> Sentences] : n \in 0..MaxSentences }

ChunkConfigs == [chunk_size : { 1, 3, 5, 6 }, chunk_overlap : { 0, 1 }]

InitChunk ==
    /\ chunk_content \in ChunkContents
    /\ chunk_config \in ChunkConfigs
    /\ chunk_called = FALSE
    /\ chunk_result = << >>

\* a call of _chunk_document(content)
ChunkDocument ==
    /\ ~chunk_called
    /\ chunk_called' = TRUE
    /\ chunk_result' = _chunk_document(chunk_content, chunk_config.chunk_size,
                                       chunk_config.chunk_overlap)
    /\ UNCHANGED << chunk_content, chunk_config >>

(***************************************************************************)
(* Properties of the chunker.                                              *)
(***************************************************************************)
\* the sentences of the text that are not empty, in their order
NonEmptySentences == SelectSeq(chunk_content, LAMBDA sentence : sentence # << >>)

\* the words of a chunk end with the words of a sentence
EndsWith(chunk, sentence) ==
    /\ Len(chunk) >= Len(sentence)
    /\ SubSeq(chunk, Len(chunk) - Len(sentence) + 1, Len(chunk)) = sentence

\* the pieces of 'A. B. C.'
TextABC == << << "A" >>, << "B" >>, << "C" >>, << >> >>

\* C19 (as stated): _chunk_document ends for every input, and the text
\* 'A. B. C.' with chunk_size 3 and overlap 0 yields three chunks, one per
\* sentence: 'A', 'B' and 'C'.
C19_OneChunkPerSentence ==
    (/\ chunk_called
     /\ chunk_content = TextABC
     /\ chunk_config = [chunk_size |-> 3, chunk_overlap |-> 0]) =>
        chunk_result = << << "A" >>, << "B" >>, << "C" >> >>

\* C19 (amended): _chunk_document ends for every input after one pass over
\* the sentences, with at most one chunk per non-empty sentence; the text
\* 'A. B. C.' with chunk_size 3 and overlap 0 yields the two chunks 'A B'
\* (three characters, which fit) and 'C', and with chunk_size 1, which each
\* sentence exceeds alone, it yields the three chunks 'A', 'B' and 'C'.
C19_SentencesThatFitShareAChunk ==
    chunk_called =>
        /\ Len(chunk_result) <= Len(NonEmptySentences)
        /\ (chunk_content = TextABC /\ chunk_config.chunk_overlap = 0) =>
               /\ chunk_config.chunk_size = 3 =>
                      chunk_result = << << "A", "B" >>, << "C" >> >>
               /\ chunk_config.chunk_size = 1 =>
                      chunk_result = << << "A" >>, << "B" >>, << "C" >> >>

\* 'A. B. C.' was chunked with chunk_size 3 and overlap 0 into two chunks
C19_Witness ==
    /\ chunk_called
    /\ chunk_content = TextABC
    /\ chunk_config = [chunk_size |-> 3, chunk_overlap |-> 0]
    /\ Len(chunk_result) = 2

\* C20: for every text, chunk size and overlap, no chunk is empty, empty and
\* whitespace-only sentences are skipped, and the trailing buffer is the last
\* chunk: a text with a non-empty sentence yields at least one chunk, and
\* the last chunk ends with the last non-empty sentence.
C20_NoEmptyChunkAndTrailingEmitted ==
    chunk_called =>
        /\ \A i \in 1..Len(chunk_result) : chunk_result[i] # << >>
        /\ chunk_result = _chunk_document(NonEmptySentences, chunk_config.chunk_size,
                                          chunk_config.chunk_overlap)
        /\ NonEmptySentences = << >> => chunk_result = << >>
        /\ NonEmptySentences # << >> =>
               /\ Len(chunk_result) >= 1
               /\ EndsWith(chunk_result[Len(chunk_result)],
                           NonEmptySentences[Len(NonEmptySentences)])

\* a text with an empty sentence in its middle and at its end was split into
\* two chunks, the second of them the trailing buffer with the last sentence
C20_Witness ==
    /\ chunk_called
    /\ chunk_content = << << "A" >>, << >>, << "dd", "e" >>, << >> >>
    /\ chunk_config = [chunk_size |-> 3, chunk_overlap |-> 1]
    /\ chunk_result = << << "A" >>, << "A", "dd", "e" >> >>

RECURSIVE JoinSentences(_)
\* the words of consecutive sentences, joined
JoinSentences(sentences) ==
    IF sentences = << >> THEN << >>
    ELSE Head(sentences) \o JoinSentences(Tail(sentences))

\* A cut at j is a split between the non-empty sentences j and j + 1.  Under
\* a set of cuts, the chunk that sentence j lands in:
HomeOf(cuts, j) == 1 + Cardinality({ c \in cuts : c < j })

\* the first sentence of the run of sentences that sentence j belongs to
RunStart(cuts, j) ==
    IF \E c \in cuts : c < j
    THEN 1 + CHOOSE c \in cuts : c < j /\ \A d \in cuts : d < j => d <= c
    ELSE 1

\* the buffer once sentence j was added: the last chunk_overlap words of the
\* chunk emitted before (none for the first chunk), then the sentences of
\* the run up to j
BufferAt(cuts, j) ==
    LET home == HomeOf(cuts, j)
        seed == IF home = 1 \/ chunk_config.chunk_overlap = 0 THEN << >>
                ELSE LastWords(chunk_result[home - 1], chunk_config.chunk_overlap)
    IN  seed \o JoinSentences(SubSeq(NonEmptySentences, RunStart(cuts, j), j))

\* C21: the chunks are the buffers of consecutive runs of the non-empty
\* sentences, in source order: a run ends exactly where adding the next
\* sentence to the buffer would exceed chunk_size characters, the buffer is
\* then emitted as a chunk, and the next buffer is the last chunk_overlap
\* words of that chunk followed by the sentence that did not fit (the
\* sentence alone with overlap 0); inside a run every added sentence fits.
C21_SplitSeedsOverlapThenSentence ==
    chunk_called =>
        \E cuts \in SUBSET (1..(Len(NonEmptySentences) - 1)) :
            /\ Len(chunk_result) =
                   IF NonEmptySentences = << >> THEN 0 ELSE Cardinality(cuts) + 1
            /\ \A j \in 1..Len(NonEmptySentences) :
                   /\ (j \in cuts \/ j = Len(NonEmptySentences)) =>
                          chunk_result[HomeOf(cuts, j)] = BufferAt(cuts, j)
                   /\ j \in cuts =>
                          CharLen(BufferAt(cuts, j))
                              + CharLen(NonEmptySentences[j + 1]) + 1
                                  > chunk_config.chunk_size
                   /\ (j > 1 /\ (j - 1) \notin cuts) =>
                          CharLen(BufferAt(cuts, j)) <= chunk_config.chunk_size

\* 'A. B. dd e.' was chunked with chunk_size 3 and overlap 1: 'dd e' did not
\* fit after 'A B', which was emitted, and the next buffer is 'B dd e'
C21_Witness ==
    /\ chunk_called
    /\ chunk_content = << << "A" >>, << "B" >>, << "dd", "e" >> >>
    /\ chunk_config = [chunk_size |-> 3, chunk_overlap |-> 1]
    /\ chunk_result = << << "A", "B" >>, << "B", "dd", "e" >> >>

\* C22: every chunk has at most chunk_size characters, unless it is a single
\* sentence that is longer than chunk_size by itself, whatever the overlap.
C22_ChunksSizeBounded ==
    chunk_called =>
        \A i \in 1..Len(chunk_result) :
            \/ CharLen(chunk_result[i]) <= chunk_config.chunk_size
            \/ \E j \in 1..Len(NonEmptySentences) :
                   /\ chunk_result[i] = NonEmptySentences[j]
                   /\ CharLen(NonEmptySentences[j]) > chunk_config.chunk_size


(***************************************************************************)
(* One turn of a conversation (py_consumer/handlers/llm_request.py,        *)
(* process_request) over the tables legalbot.conversations, .messages and  *)
(* .prompt_templates.  The handler, the prompt engine and the phase        *)
(* manager each own a DatabaseManager; a manager whose pool was never      *)
(* connected fails every query, which its methods catch or re-raise.  The  *)
(* phase manager finds no branch_flow rows here.  process_request is       *)
(* suspended at its awaits; between them user messages are stored.         *)
(***************************************************************************)
VARIABLES
    db_conversations,     \* legalbot.conversations: id -> current_phase
    db_messages,          \* legalbot.messages, oldest first
    db_prompt_templates,  \* the phases that have an active row in legalbot.prompt_templates
    db_connected,         \* the pool of LLMRequestHandler.db_manager is connected
    default_ai_provider,  \* app.default_ai_provider of Config
    turn                  \* the process_request coroutine: its position, its locals, the
                          \* calls it has made (events), and how it ended

turnVars == << db_conversations, db_messages, db_prompt_templates, db_connected,
               default_ai_provider, turn >>

\* the conversation that is stored, and one that is not
StoredConversation == "c1"
ConversationIds == { StoredConversation, "c2" }

TurnPhases == { "INFO_COLLECTION", "CASE_ANALYSIS" }

\* the requests: with and without a current_phase
TurnRequests ==
    { [conversation_id |-> c, message |-> m] : c \in ConversationIds, m \in { Greeting } }
    \cup { [conversation_id |-> c, message |-> m, current_phase |-> ph] :
              c \in ConversationIds, m \in { Greeting, PlainEmail }, ph \in TurnPhases }

\* what a provider answers: without and with a phase marker
TurnResponses == { << "ok" >>, << "[NEXT_PHASE:", "CASE_ANALYSIS", "]" >> }

\* self.ai_providers after initialize()
ai_providers == { "openai", "deepseek" }

NoRow == << >>       \* None, where a row is expected
IdleTurn == [pc |-> "idle", events |-> << >>]

\* the rows of a conversation, as get_conversation_context selects them: the
\* newest `limit` ones, oldest first
RECURSIVE RowsOf(_, _)
RowsOf(rows, conversation_id) ==
    IF rows = << >> THEN << >>
    ELSE (IF Head(rows).conversation_id = conversation_id
          THEN << [sender_type |-> Head(rows).sender_type, content |-> Head(rows).content,
                   metadata |-> Head(rows).metadata, created_at |-> Head(rows).created_at] >>
          ELSE << >>) \o RowsOf(Tail(rows), conversation_id)

\* DatabaseManager.get_conversation_context: a failed query yields []
get_conversation_context(conversation_id, limit) ==
    IF ~db_connected THEN << >>
    ELSE LET rows == RowsOf(db_messages, conversation_id) IN
         IF Len(rows) <= limit THEN rows ELSE SubSeq(rows, Len(rows) - limit + 1, Len(rows))

\* a lookup that stands in a bare row for a conversation that is not stored
GetConversationDetailsOrStub(conversation_id) ==
    IF db_connected /\ conversation_id \in DOMAIN db_conversations
    THEN [id |-> conversation_id, current_phase |-> db_conversations[conversation_id]]
    ELSE [id |-> conversation_id, current_phase |-> "INFO_COLLECTION"]

\* DatabaseManager.get_conversation_details: the row, or None when there is
\* none or the query failed
get_conversation_details(conversation_id) ==
    IF db_connected /\ conversation_id \in DOMAIN db_conversations
    THEN [id |-> conversation_id, current_phase |-> db_conversations[conversation_id]]
    ELSE NoRow

\* DatabaseManager.get_prompt_template: the row, or None when there is none
get_prompt_template(phase) ==
    IF phase \in db_prompt_templates
    THEN [template_name |-> phase, template_content |-> << "system prompt of", phase >>]
    ELSE NoRow

\* PromptEngine.build_prompt
build_prompt(message, ctx, phase, slots, conversation) ==
    LET template == get_prompt_template(phase)
        system_prompt == IF template # NoRow THEN template.template_content ELSE << >>
    IN  [messages |->
            (IF system_prompt # << >>
             THEN << [role |-> "system", content |-> system_prompt] >> ELSE << >>)
            \o [i \in 1..Len(ctx) |->
                   [role |-> IF ctx[i].sender_type = "user" THEN "user" ELSE "assistant",
                    content |-> ctx[i].content]]
            \o << [role |-> "user", content |-> message] >>,
         phase |-> phase, slots |-> slots, conversation |-> conversation,
         template |-> template # NoRow]

\* the except of process_request logs and re-raises
Raised(t, exc) == [t EXCEPT !.pc = "raised"] @@ [exc |-> exc]

InitTurn ==
    /\ db_conversations \in [{ StoredConversation } -> TurnPhases]
    /\ db_messages = << >>
    /\ db_prompt_templates \in SUBSET { "INFO_COLLECTION" }
    /\ db_connected \in BOOLEAN
    /\ default_ai_provider \in { "openai", "azure" }
    /\ turn = IdleTurn

\* the user's message of a turn is stored before the turn is requested
StoreUserMessage ==
    /\ turn.pc = "idle"
    /\ Len(db_messages) + 1 < MaxMessages
    /\ \E created_at \in { TOld, TNew } :
          /\ db_messages # << >> => db_messages[Len(db_messages)].created_at <= created_at
          /\ db_messages' = Append(db_messages,
                                   [conversation_id |-> StoredConversation,
                                    sender_type |-> "user", content |-> Greeting,
                                    metadata |-> << >>, created_at |-> created_at])
    /\ UNCHANGED << db_conversations, db_prompt_templates, db_connected, default_ai_provider,
                    turn >>

\* process_request, up to the slots: the context and the conversation are
\* read, and a conversation that was not found raises
StartedTurn(request) ==
    LET conversation_id == request.conversation_id
        current_phase == Get(request, "current_phase", "INFO_COLLECTION")
        ctx == get_conversation_context(conversation_id, 10)
        conversation == get_conversation_details(conversation_id)
        started == [pc |-> "build_prompt", events |-> << >>, request |-> request,
                    current_phase |-> current_phase, context |-> ctx,
                    conversation |-> conversation]
    IN  IF conversation = NoRow
        THEN Raised(started, << "ValueError", "Conversation", conversation_id, "not found" >>)
        ELSE started

\* process_request is called with a request
ProcessRequest ==
    /\ turn.pc = "idle"
    /\ Len(db_messages) < MaxMessages
    /\ \E request \in TurnRequests : turn' = StartedTurn(request)
    /\ UNCHANGED << db_conversations, db_messages, db_prompt_templates, db_connected,
                    default_ai_provider >>

\* the slots, the prompt and the provider of the turn
BuildPrompt ==
    /\ turn.pc = "build_prompt"
    /\ LET slots == extract_slots(turn.request.message)
           prompt_data == build_prompt(turn.request.message, turn.context,
                                       turn.current_phase, slots, turn.conversation)
           built == turn @@ [slots |-> slots, prompt_data |-> prompt_data,
                             provider_name |-> default_ai_provider]
       IN  turn' = IF default_ai_provider \notin ai_providers
                   THEN Raised(built, << "ValueError", "AI provider", default_ai_provider,
                                         "not available" >>)
                   ELSE [built EXCEPT !.pc = "generate_response"]
    /\ UNCHANGED << db_conversations, db_messages, db_prompt_templates, db_connected,
                    default_ai_provider >>

\* a comparison that always finds the phase changed
PhaseAlwaysChanged(next_phase, current_phase) == TRUE

\* next_phase != current_phase
PhaseChanged(next_phase, current_phase) == next_phase # current_phase

\* provider.generate_response returns or raises; determine_next_phase
GenerateResponse ==
    /\ turn.pc = "generate_response"
    /\ \/ turn' = Raised([turn EXCEPT !.events = Append(@, "generate_response")],
                         << "ProviderError" >>)
       \/ \E ai_response \in TurnResponses :
             LET next_phase ==
                     determine_next_phase(
                         [auto_transition |-> TRUE, phase_timeout |-> PHASE_TIMEOUT],
                         turn.current_phase, turn.request.message, ai_response,
                         turn.slots, turn.context, << >>, Now).phase
             IN  turn' = [turn EXCEPT
                             !.pc = IF PhaseChanged(next_phase, turn.current_phase)
                                    THEN "update_conversation_phase"
                                    ELSE "save_ai_response",
                             !.events = Append(@, "generate_response")]
                         @@ [ai_response |-> ai_response, next_phase |-> next_phase]
    /\ UNCHANGED << db_conversations, db_messages, db_prompt_templates, db_connected,
                    default_ai_provider >>

\* DatabaseManager.update_conversation_phase: the UPDATE, or its failure,
\* which is re-raised
UpdateConversationPhase ==
    /\ turn.pc = "update_conversation_phase"
    /\ \/ /\ db_conversations' =
                [db_conversations EXCEPT ![turn.request.conversation_id] = turn.next_phase]
          /\ turn' = [turn EXCEPT !.pc = "save_ai_response",
                                  !.events = Append(@, "update_conversation_phase")]
       \/ /\ turn' = Raised(turn, << "PostgresError" >>)
          /\ UNCHANGED db_conversations
    /\ UNCHANGED << db_messages, db_prompt_templates, db_connected, default_ai_provider >>

\* response_metadata
ResponseMetadata(t) ==
    [provider |-> t.provider_name, phase |-> t.current_phase, next_phase |-> t.next_phase,
     slots |-> t.slots]

\* DatabaseManager.save_ai_response: the INSERT, or its failure, which is
\* re-raised; then process_request returns
SaveAiResponse ==
    /\ turn.pc = "save_ai_response"
    /\ \/ /\ db_messages' = Append(db_messages,
                                   [conversation_id |-> turn.request.conversation_id,
                                    sender_type |-> "assistant",
                                    content |-> turn.ai_response,
                                    metadata |-> ResponseMetadata(turn),
                                    created_at |-> TNew])
          /\ turn' = [turn EXCEPT !.pc = "returned",
                                  !.events = Append(@, "save_ai_response")]
                     @@ [ret |-> [content |-> turn.ai_response,
                                  metadata |-> ResponseMetadata(turn),
                                  next_phase |-> turn.next_phase,
                                  slots |-> turn.slots]]
       \/ /\ turn' = Raised(turn, << "PostgresError" >>)
          /\ UNCHANGED db_messages
    /\ UNCHANGED << db_conversations, db_prompt_templates, db_connected, default_ai_provider >>

\* the caller has the result or the exception, and the handler is free again
TurnOver ==
    /\ turn.pc \in { "returned", "raised" }
    /\ turn' = IdleTurn
    /\ UNCHANGED << db_conversations, db_messages, db_prompt_templates, db_connected,
                    default_ai_provider >>

(***************************************************************************)
(* Properties of a turn.                                                   *)
(***************************************************************************)
\* the assistant rows of a conversation
AssistantRows(conversation_id) ==
    SelectSeq(db_messages, LAMBDA row : /\ row.conversation_id = conversation_id
                                        /\ row.sender_type = "assistant")

\* C24: a process_request for a conversation id without a stored
\* conversation ends by raising ValueError("Conversation <id> not found") to
\* its caller, having called no provider, updated no phase and appended no
\* assistant message.
C24_MissingConversationRaisesNotFound ==
    (turn.pc # "idle" /\ turn.request.conversation_id \notin DOMAIN db_conversations) =>
        /\ turn.pc = "raised"
        /\ turn.exc = << "ValueError", "Conversation", turn.request.conversation_id,
                         "not found" >>
        /\ turn.events = << >>
        /\ AssistantRows(turn.request.conversation_id) = << >>

\* a request for the conversation that is not stored was made through a
\* connected database manager and has raised
C24_Witness ==
    /\ db_connected
    /\ turn.pc = "raised"
    /\ turn.request.conversation_id = "c2"
    /\ turn.events = << >>

\* C25: a turn whose phase has no prompt template ends with a not-found
\* failure: the provider is not called, and neither the phase update nor the
\* assistant message is written.
C25_MissingTemplateRaisesNotFound ==
    (turn.pc \notin { "idle", "build_prompt" } /\ "prompt_data" \in DOMAIN turn
        /\ ~turn.prompt_data.template) =>
            /\ turn.pc = "raised"
            /\ turn.exc[Len(turn.exc)] = "not found"
            /\ turn.events = << >>

\* the calls a turn makes, in their order, with and without the phase update
CallOrders ==
    { << "generate_response", "update_conversation_phase", "save_ai_response" >>,
      << "generate_response", "save_ai_response" >> }

IsPrefix(p, q) == Len(p) <= Len(q) /\ SubSeq(q, 1, Len(p)) = p

\* the turn has made the call
Made(call) == \E i \in 1..Len(turn.events) : turn.events[i] = call

\* a turn writes the phase only when the next phase differs from the phase
\* of the request, after the provider has answered and before the assistant
\* message; a turn that gets to the message has written the phase iff the
\* two differ; and the row of the message carries both phases
TurnWritesPhaseOnChange ==
    /\ \E order \in CallOrders : IsPrefix(turn.events, order)
    /\ Made("update_conversation_phase") => turn.next_phase # turn.current_phase
    /\ turn.pc \in { "save_ai_response", "returned" } =>
           (Made("update_conversation_phase") <=> turn.next_phase # turn.current_phase)
    /\ turn.pc = "returned" =>
           LET row == db_messages[Len(db_messages)] IN
           /\ row.conversation_id = turn.request.conversation_id
           /\ row.sender_type = "assistant"
           /\ row.metadata.phase = turn.current_phase
           /\ row.metadata.next_phase = turn.next_phase

\* a stored phase changes only in the update of a turn of its conversation
PhaseChangesInOwnTurnOnly ==
    \A c \in DOMAIN db_conversations :
        db_conversations'[c] # db_conversations[c] =>
            /\ turn.pc = "update_conversation_phase"
            /\ turn.request.conversation_id = c
            /\ db_conversations'[c] = turn.next_phase

\* C29: process_request writes the stored phase iff the next phase differs
\* from the current phase of the request, after the provider response and
\* before the assistant message, whose metadata records the phase of the
\* turn and the next phase; and nothing but a turn of a conversation
\* changes its stored phase.
C29_PhaseWrittenIffChanged ==
    []TurnWritesPhaseOnChange /\ [][PhaseChangesInOwnTurnOnly]_turnVars

\* a turn requested in INFO_COLLECTION has returned after the provider's
\* marker moved the stored conversation to CASE_ANALYSIS
C29_Witness ==
    /\ turn.pc = "returned"
    /\ turn.current_phase = "INFO_COLLECTION"
    /\ turn.events = << "generate_response", "update_conversation_phase",
                        "save_ai_response" >>
    /\ db_conversations[StoredConversation] = "CASE_ANALYSIS"
    /\ db_messages[Len(db_messages)].metadata.next_phase = "CASE_ANALYSIS"

\* the phase the conversation of the turn had when process_request read it
PhaseBeforeCall == turn.conversation.current_phase

\* C34: when process_request raises for a turn, the stored phase of the
\* conversation is the one it had before the call: no phase update stays
\* persisted for a turn whose assistant message was not persisted.
C34_RaisedTurnLeavesPhase ==
    (turn.pc = "raised" /\ turn.conversation # NoRow) =>
        db_conversations[turn.request.conversation_id] = PhaseBeforeCall


(***************************************************************************)
(* The consumer (py_consumer/start_consumer.py): start() polls for pending *)
(* requests and process_requests handles the fetched ones one after the    *)
(* other, each by a process_request of the handler above, then by          *)
(* update_workflow_state and mark_request_processed, or by                 *)
(* mark_request_failed when any of them raised.  User messages are stored  *)
(* by others at any time.  The two marks only write a log line; the lines  *)
(* are kept here as marks and marked_processed.                            *)
(***************************************************************************)
VARIABLES
    consumer_pc,       \* where the consumer is: about to poll, at the head of the for
                       \* loop, or awaiting process_request
    polls,             \* the calls of get_pending_requests made
    fetched,           \* what the last get_pending_requests returned
    pending_requests,  \* the part of it the for loop has not finished
    workflow_states,   \* WorkflowEngine._states: conversation id -> current_phase
    marks,             \* the marks logged for the last fetch, in their order
    marked_processed   \* the ids ever logged as processed

consumerVars == << consumer_pc, polls, fetched, pending_requests, workflow_states, marks,
                   marked_processed >>

PendingWindow == 3600      \* INTERVAL '1 hour'
PendingLimit == 10         \* LIMIT 10

\* the ids of the user messages, in the order they are stored
MessageIds == << "m1", "m2", "m3" >>

\* the user rows stored
UserRows == SelectSeq(db_messages, LAMBDA row : row.sender_type = "user")

\* the conversations that have an assistant row created after the time
LaterAnswered(created_at) ==
    { db_messages[j].conversation_id :
        j \in { k \in 1..Len(db_messages) : /\ db_messages[k].sender_type = "assistant"
                                            /\ db_messages[k].created_at > created_at } }

\* DatabaseManager.get_pending_requests: the SELECT.  Rows come in the order
\* of created_at, which is the order they are stored in.
get_pending_requests ==
    LET rows == SelectSeq(db_messages,
                    LAMBDA m : /\ m.sender_type = "user"
                               /\ m.conversation_id \in DOMAIN db_conversations
                               /\ m.id \notin LaterAnswered(m.created_at)
                               /\ m.created_at > Now - PendingWindow)
        joined == [i \in 1..Len(rows) |->
                      [id |-> rows[i].id, conversation_id |-> rows[i].conversation_id,
                       message |-> rows[i].content, created_at |-> rows[i].created_at,
                       current_phase |-> db_conversations[rows[i].conversation_id]]]
    IN  IF Len(joined) <= PendingLimit THEN joined ELSE SubSeq(joined, 1, PendingLimit)

\* a loop that gives up the rest of the fetch when a request failed
RestAbandoned(requests) == << >>

\* the for loop goes on with the next request, after a request that failed
\* as after one that was processed
RestAfterFailure(requests) == Tail(requests)

InitConsumer ==
    /\ consumer_pc = "poll"
    /\ polls = 0
    /\ fetched = << >>
    /\ pending_requests = << >>
    /\ workflow_states = << >>
    /\ marks = << >>
    /\ marked_processed = {}

\* a user message of the stored conversation is stored
ConsumerStoresUserMessage ==
    /\ Len(UserRows) < MaxUserMessages
    /\ \E created_at \in { TOld, TNew } :
          /\ db_messages # << >> => db_messages[Len(db_messages)].created_at <= created_at
          /\ db_messages' = Append(db_messages,
                                   [id |-> MessageIds[Len(UserRows) + 1],
                                    conversation_id |-> StoredConversation,
                                    sender_type |-> "user", content |-> Greeting,
                                    metadata |-> << >>, created_at |-> created_at])
    /\ UNCHANGED << db_conversations, db_prompt_templates, db_connected, default_ai_provider,
                    turn, consumerVars >>

\* process_requests: get_pending_requests returns the rows, or [] when its
\* query failed
GetPendingRequests ==
    /\ consumer_pc = "poll"
    /\ polls < MaxPolls
    /\ polls' = polls + 1
    /\ \E rows \in { get_pending_requests, << >> } :
          /\ fetched' = rows
          /\ pending_requests' = rows
    /\ marks' = << >>
    /\ consumer_pc' = "for"
    /\ UNCHANGED << turnVars, workflow_states, marked_processed >>

\* the for loop takes the next request and awaits process_request(request);
\* after the last one process_requests returns and start() sleeps
NextRequest ==
    /\ consumer_pc = "for"
    /\ IF pending_requests = << >>
       THEN /\ consumer_pc' = "poll"
            /\ UNCHANGED turn
       ELSE /\ consumer_pc' = "process_request"
            /\ turn' = StartedTurn(Head(pending_requests))
    /\ UNCHANGED << db_conversations, db_messages, db_prompt_templates, db_connected,
                    default_ai_provider, polls, fetched, pending_requests, workflow_states,
                    marks, marked_processed >>

\* WorkflowEngine.update_workflow_state
update_workflow_state(conversation_id, response) ==
    [c \in DOMAIN workflow_states \cup { conversation_id } |->
        IF c = conversation_id THEN response.next_phase ELSE workflow_states[c]]

\* process_request returned: update_workflow_state, mark_request_processed
MarkRequestProcessed ==
    /\ consumer_pc = "process_request"
    /\ turn.pc = "returned"
    /\ LET request == Head(pending_requests) IN
       /\ workflow_states' = update_workflow_state(request.conversation_id, turn.ret)
       /\ marks' = Append(marks, [id |-> request.id, mark |-> "processed"])
       /\ marked_processed' = marked_processed \cup { request.id }
    /\ pending_requests' = Tail(pending_requests)
    /\ turn' = IdleTurn
    /\ consumer_pc' = "for"
    /\ UNCHANGED << db_conversations, db_messages, db_prompt_templates, db_connected,
                    default_ai_provider, polls, fetched >>

\* process_request raised: the except of the loop body, mark_request_failed
MarkRequestFailed ==
    /\ consumer_pc = "process_request"
    /\ turn.pc = "raised"
    /\ marks' = Append(marks, [id |-> Head(pending_requests).id, mark |-> "failed"])
    /\ pending_requests' = RestAfterFailure(pending_requests)
    /\ turn' = IdleTurn
    /\ consumer_pc' = "for"
    /\ UNCHANGED << db_conversations, db_messages, db_prompt_templates, db_connected,
                    default_ai_provider, polls, fetched, workflow_states, marked_processed >>

(***************************************************************************)
(* Properties of the consumer loop.                                        *)
(***************************************************************************)
\* the requests of the last fetch the for loop has finished
Done == Len(fetched) - Len(pending_requests)

\* C31: every fetched request ends in exactly one mark, processed or failed;
\* the requests are handled one at a time in the order of the fetch; and a
\* request that failed does not keep the rest of the fetch from being
\* handled: when the loop is over, every fetched request has its mark.
C31_EveryFetchedRequestMarkedOnce ==
    /\ pending_requests = SubSeq(fetched, Done + 1, Len(fetched))
    /\ [i \in 1..Len(marks) |-> marks[i].id] = [i \in 1..Done |-> fetched[i].id]
    /\ \A i \in 1..Len(marks) : marks[i].mark \in { "processed", "failed" }
    /\ consumer_pc = "poll" => Done = Len(fetched)
    /\ consumer_pc = "process_request" =>
           /\ pending_requests # << >>
           /\ turn.pc # "idle"
           /\ turn.request = Head(pending_requests)
    /\ consumer_pc # "process_request" => turn.pc = "idle"

\* a fetch of two requests is over: the first failed, the second was
\* processed
C31_Witness ==
    /\ consumer_pc = "poll"
    /\ Len(fetched) = 2
    /\ marks = << [id |-> fetched[1].id, mark |-> "failed"],
                  [id |-> fetched[2].id, mark |-> "processed"] >>

\* C35: every turn the consumer processes runs with the phase the
\* conversation has stored when the turn is processed, also when an earlier
\* request of the same fetch changed it: never with the phase that was read
\* when the requests were fetched.
C35_TurnUsesStoredPhase ==
    (consumer_pc = "process_request" /\ turn.conversation # NoRow) =>
        turn.current_phase = PhaseBeforeCall

\* C36: a user message is processed at most once: a request that was marked
\* processed is not returned by a later get_pending_requests, and the
\* conversation gets no more assistant messages than it has user messages.
C36_ProcessedAtMostOnce ==
    /\ \A i \in 1..Len(pending_requests) : pending_requests[i].id \notin marked_processed
    /\ Len(AssistantRows(StoredConversation)) <= Len(UserRows)

(***************************************************************************)
(* The timeout of the phase engine under the default configuration.        *)
(***************************************************************************)
\* C30: with the default configuration, when the response has no marker, no
\* rule fires and auto-transition is enabled, the phase advances to its
\* successor iff more than 30 minutes lie between the last context message
\* and now.
C30_DefaultTimeoutIsThirtyMinutes ==
    (/\ Called
     /\ ~CarriesMarker(pm_call.ai_response)
     /\ pm_ret.fired = 0
     /\ ~pm_ret.exc
     /\ workflow_config = [auto_transition |-> TRUE, phase_timeout |-> PHASE_TIMEOUT]
     /\ context # << >>
     /\ "created_at" \in DOMAIN context[Len(context)]
     /\ Successor(pm_call.current_phase) # None) =>
        (pm_ret.phase = Successor(pm_call.current_phase)
            <=> Now - context[Len(context)].created_at > 30)


(***************************************************************************)
(* The message conditions on their own: _evaluate_condition applied to a   *)
(* client_interest or keyword_match rule and a user message.  The message  *)
(* is a sequence of words; an indicator is one word.                       *)
(***************************************************************************)
VARIABLES
    cond_rule,         \* the rule argument
    cond_message,      \* the message argument
    cond_called,       \* _evaluate_condition has returned
    cond_result        \* what it returned

condVars == << cond_rule, cond_message, cond_called, cond_result >>

\* the words of the configured indicators and keywords, in three spellings
IndicatorWords == { "pricing", "Pricing", "PRICING", "hire" }

\* interest_indicators and keywords as configured: some words, or no key at
\* all
ConditionDatas(key) ==
    { << >> } \cup { [k \in { key } |-> ws] : ws \in SUBSET IndicatorWords \ { {} } }

MessageRules ==
    { [condition_type |-> "client_interest", condition_data |-> d] :
          d \in ConditionDatas("interest_indicators") }
    \cup { [condition_type |-> "keyword_match", condition_data |-> d] :
              d \in ConditionDatas("keywords") }

MessageWords == { "pricing", "Pricing", "PRICING", "hello" }

UserMessages == UNION { [1..n -> MessageWords] : n \in 0..MaxWords }

InitCondition ==
    /\ cond_rule \in MessageRules
    /\ cond_message \in UserMessages
    /\ cond_called = FALSE
    /\ cond_result = FF

\* a call of _evaluate_condition(rule, message, ai_response, slots, context)
EvaluateCondition ==
    /\ ~cond_called
    /\ cond_called' = TRUE
    /\ cond_result' = _evaluate_condition(cond_rule, cond_message, << >>, << >>, << >>)
    /\ UNCHANGED << cond_rule, cond_message >>

\* C26: client_interest is true iff some interest indicator occurs in the
\* user message, both compared in lower case: the indicator 'Pricing'
\* matches a message with 'pricing' or 'PRICING'.
C26_ClientInterestIgnoresCase ==
    (cond_called /\ cond_rule.condition_type = "client_interest") =>
        LET interest_indicators ==
                Get(cond_rule.condition_data, "interest_indicators",
                    default_interest_indicators)
        IN  cond_result = TT <=>
                \E indicator \in interest_indicators :
                    \E i \in 1..Len(cond_message) :
                        Lower(cond_message[i]) = Lower(indicator)


(***************************************************************************)
(* The step runner of the automation service                               *)
(* (wechat_automation_service/engine.py, _execute_step_with_retries).  An  *)
(* attempt awaits the action under asyncio.wait_for; what the action does  *)
(* in an attempt is its behaviour: it returns a result or raises, after    *)
(* some seconds.  Between attempts the runner sleeps.                      *)
(***************************************************************************)
VARIABLES
    step,              \* the WorkflowStep: [action, timeout, retry_count]
    step_pc,           \* the position of _execute_step_with_retries
    step_attempt,      \* attempt, the loop variable
    step_events,       \* the calls made so far: attempts with their results, and sleeps
    step_result        \* the local result, and the value returned in the end

stepVars == << step, step_pc, step_attempt, step_events, step_result >>

StepTimeout == 30    \* the default timeout of a step, in seconds

\* the methods of BasicActions, and a name that is none of them
ActionNames == { "send_message", "no_such_action" }

\* what the action does in one attempt
Behaviours ==
    { [kind |-> "returns", value |-> [success |-> TRUE, data |-> "done"], seconds |-> d] :
          d \in { 1, StepTimeout + 1 } }
    \cup { [kind |-> "returns", value |-> [success |-> FALSE, error |-> "failed"],
            seconds |-> 1],
           [kind |-> "returns", value |-> [status |-> "sent"], seconds |-> 1],
           [kind |-> "raises", value |-> [exception |-> "RuntimeError"], seconds |-> 1] }

NoStepResult == [unbound |-> TRUE]

\* an _execute_action that lets the TimeoutError of wait_for out
ExecuteActionTimeoutUncaught(action, behaviour, timeout) ==
    IF action = "no_such_action"
    THEN [success |-> FALSE, error |-> << "Unknown action:", action >>]
    ELSE IF behaviour.seconds > timeout THEN [raised |-> ""]
    ELSE IF behaviour.kind = "raises"
    THEN [success |-> FALSE, error |-> << behaviour.value.exception >>]
    ELSE behaviour.value

\* WorkflowEngine._execute_action: the result of the action, or a failure
\* for an unknown action, a timeout or an exception of the action
_execute_action(action, behaviour, timeout) ==
    IF action = "no_such_action"
    THEN [success |-> FALSE, error |-> << "Unknown action:", action >>]
    ELSE IF behaviour.seconds > timeout
    THEN [success |-> FALSE, error |-> << "Action", action, "timed out after", timeout >>]
    ELSE IF behaviour.kind = "raises"
    THEN [success |-> FALSE, error |-> << behaviour.value.exception >>]
    ELSE behaviour.value

\* the try of an attempt: an exception becomes a failure with its text
AttemptResult(action, behaviour, timeout) ==
    LET r == _execute_action(action, behaviour, timeout) IN
    IF "raised" \in DOMAIN r THEN [success |-> FALSE, error |-> << r.raised >>] ELSE r

\* a delay after every attempt, the last one included
SleepsAfterEveryAttempt(attempt, retry_count) == TRUE

\* attempt < step.retry_count - 1
SleepsBeforeRetry(attempt, retry_count) == attempt < retry_count - 1

InitStep ==
    /\ step \in [action : ActionNames, timeout : { StepTimeout },
                 retry_count : 0..MaxRetryCount]
    /\ step_pc = "ready"
    /\ step_attempt = 0
    /\ step_events = << >>
    /\ step_result = NoStepResult

\* the for loop is entered, or it has no iteration and 'return result'
\* raises UnboundLocalError
ExecuteStepWithRetries ==
    /\ step_pc = "ready"
    /\ step_pc' = IF step.retry_count > 0 THEN "attempt" ELSE "raised"
    /\ UNCHANGED << step, step_attempt, step_events, step_result >>

\* one attempt: the action is executed; a success returns, a failure sleeps
\* when attempts remain, and the last failure is returned
ExecuteAction ==
    /\ step_pc = "attempt"
    /\ \E behaviour \in Behaviours :
          LET result == AttemptResult(step.action, behaviour, step.timeout) IN
          /\ step_result' = result
          /\ step_events' = Append(step_events,
                                   [call |-> "_execute_action", attempt |-> step_attempt,
                                    behaviour |-> behaviour, result |-> result])
          /\ step_pc' = IF Get(result, "success", FALSE) THEN "returned"
                        ELSE IF SleepsBeforeRetry(step_attempt, step.retry_count)
                        THEN "sleep"
                        ELSE IF step_attempt + 1 < step.retry_count THEN "attempt"
                        ELSE "returned"
          /\ step_attempt' = IF /\ ~Get(result, "success", FALSE)
                                /\ ~SleepsBeforeRetry(step_attempt, step.retry_count)
                                /\ step_attempt + 1 < step.retry_count
                             THEN step_attempt + 1 ELSE step_attempt
    /\ UNCHANGED step

\* asyncio.sleep(1) is over and the next attempt starts, if there is one
Sleep ==
    /\ step_pc = "sleep"
    /\ step_events' = Append(step_events, [call |-> "sleep", seconds |-> 1])
    /\ step_pc' = IF step_attempt + 1 < step.retry_count THEN "attempt" ELSE "returned"
    /\ step_attempt' = IF step_attempt + 1 < step.retry_count
                       THEN step_attempt + 1 ELSE step_attempt
    /\ UNCHANGED << step, step_result >>

(***************************************************************************)
(* Properties of the step runner.                                          *)
(***************************************************************************)
\* the attempts made, in their order
Attempts == SelectSeq(step_events, LAMBDA e : e.call = "_execute_action")

AttemptTimedOut(e) == step.action # "no_such_action" /\ e.behaviour.seconds > step.timeout

\* C27: an action that runs longer than the timeout of its step ends its
\* attempt with the result {'success': False, 'error': 'Action ... timed out
\* after ...'}, not with an exception; the runner goes on to the next
\* attempt when one remains, and a later attempt that succeeds makes the
\* step return that success.
C27_TimeoutIsAFailedAttempt ==
    /\ \A k \in 1..Len(Attempts) :
           AttemptTimedOut(Attempts[k]) =>
               /\ Attempts[k].result =
                      [success |-> FALSE,
                       error |-> << "Action", step.action, "timed out after", step.timeout >>]
               /\ (step_pc = "returned" /\ k < step.retry_count) => Len(Attempts) > k
    /\ step_pc # "raised" \/ step.retry_count = 0
    /\ (step_pc = "returned" /\ Get(Attempts[Len(Attempts)].result, "success", FALSE)) =>
           step_result = Attempts[Len(Attempts)].result

\* the first attempt timed out, the second succeeded, and the step returned
\* the success
C27_Witness ==
    /\ step_pc = "returned"
    /\ Len(Attempts) = 2
    /\ AttemptTimedOut(Attempts[1])
    /\ step_result = [success |-> TRUE, data |-> "done"]

\* C28: a step is attempted at most retry_count times and not again after a
\* success; between two consecutive attempts, and only there, the runner
\* sleeps one second; and when every attempt failed there were retry_count
\* attempts and the result of the step is the failure of the last one.
C28_BoundedAttemptsFixedDelay ==
    /\ Len(Attempts) <= step.retry_count
    /\ \A k \in 1..Len(Attempts) :
           /\ Attempts[k].attempt = k - 1
           /\ Get(Attempts[k].result, "success", FALSE) => k = Len(Attempts)
    /\ \A i \in 1..Len(step_events) :
           IF i % 2 = 1
           THEN step_events[i].call = "_execute_action"
           ELSE step_events[i] = [call |-> "sleep", seconds |-> 1]
    /\ step_pc = "returned" =>
           /\ step_events[Len(step_events)].call = "_execute_action"
           /\ step_result = Attempts[Len(Attempts)].result
           /\ ~Get(step_result, "success", FALSE) => Len(Attempts) = step.retry_count

\* three attempts failed, with a sleep after the first and after the second,
\* and the step returned the failure of the third
C28_Witness ==
    /\ step_pc = "returned"
    /\ step.retry_count = 3
    /\ Len(Attempts) = 3
    /\ Len(step_events) = 5
    /\ ~Get(step_result, "success", FALSE)
    /\ Attempts[1].result # Attempts[3].result


(***************************************************************************)
(* Workflows of the automation service (wechat_automation_service/         *)
(* engine.py, execute_workflow; main.py, handle_message).  The websocket   *)
(* client awaits handle_message for one received message before it reads   *)
(* the next, so messages that arrive while a workflow executes wait in     *)
(* inbox.  A step is run by the step runner above.  A condition is a       *)
(* sequence of tokens.                                                     *)
(***************************************************************************)
VARIABLES
    inbox,             \* the messages received that handle_message has not been given yet
    received,          \* how many messages were received
    active_workflows,  \* the keys of WorkflowEngine.active_workflows
    contexts,          \* every WorkflowContext created: workflow_id -> its status
    wf,                \* the execute_workflow call: its position and its locals
    stops_handled      \* the workflows for which a stop_workflow message arrived while
                       \* they were executing, and was handled since

workflowVars == << inbox, received, active_workflows, contexts, wf, stops_handled >>

DefaultRetryCount == 3   \* WorkflowStep.retry_count

\* uuid.uuid4(), one after the other
EngineIds == << "u1", "u2", "u3", "u4" >>
\* the workflow ids the orchestrator puts in its messages
OrchestratorIds == { "w1" }
\* the ids of stop_workflow messages: the orchestrator's own, and the first
\* one of the engine, which the orchestrator reads in a workflow_result
StopIds == OrchestratorIds \cup { EngineIds[1] }

\* context['variables'] of the workflows
WorkflowVariables == [ready |-> "yes", count |-> "1"]

\* the conditions of steps
StepConditions ==
    { << "TRUE" >>, << "no" >>, << "{{ready}}" >>, << "{{count}}", "==", "2" >>,
      << "ready" >> }

\* the steps of custom workflows, as the orchestrator writes them
StepPool ==
    { [id |-> "a", action |-> "send_message", retry_count |-> 1],
      [id |-> "u", action |-> "no_such_action", retry_count |-> 1],
      [id |-> "z", action |-> "send_message", retry_count |-> 0] }
    \cup { [id |-> "c", action |-> "send_message", retry_count |-> 1, condition |-> c] :
              c \in StepConditions }

RECURSIVE StepLists(_)
StepLists(n) ==
    IF n = 0 THEN { << >> }
    ELSE StepLists(n - 1)
         \cup { Append(l, st) : l \in { k \in StepLists(n - 1) : Len(k) = n - 1 },
                                st \in StepPool }

\* workflow_data of an execute_workflow message
WorkflowDatas ==
    { [template |-> t] : t \in { "send_message", "receive_message", "no_such_template" } }
    \cup { [steps |-> l] : l \in StepLists(MaxSteps) }

\* self.workflow_templates after load_workflow_templates
workflow_templates ==
    [send_message |->
        [steps |-> << [id |-> "open_wechat", action |-> "open_application"],
                      [id |-> "search_contact", action |-> "search_contact"],
                      [id |-> "send_message", action |-> "send_message"] >>],
     receive_message |->
        [steps |-> << [id |-> "monitor_messages", action |-> "monitor_messages"] >>],
     auto_reply |->
        [steps |-> << [id |-> "monitor_messages", action |-> "monitor_messages"],
                      [id |-> "generate_reply", action |-> "generate_reply"],
                      [id |-> "send_reply", action |-> "send_message"] >>]]

\* WorkflowEngine._parse_workflow_steps: the steps with their defaults, or
\* ValueError for a template that is not known
_parse_workflow_steps(workflow_data) ==
    IF "template" \in DOMAIN workflow_data
          /\ workflow_data.template \notin DOMAIN workflow_templates
    THEN [raised |-> << "ValueError", "Unknown workflow template:", workflow_data.template >>]
    ELSE LET step_data == IF "template" \in DOMAIN workflow_data
                          THEN Get(workflow_templates[workflow_data.template], "steps", << >>)
                          ELSE Get(workflow_data, "steps", << >>)
         IN  [steps |-> [k \in 1..Len(step_data) |->
                            [id |-> step_data[k].id,
                             action |-> step_data[k].action,
                             timeout |-> Get(step_data[k], "timeout", StepTimeout),
                             retry_count |-> Get(step_data[k], "retry_count",
                                                 DefaultRetryCount),
                             condition |-> Get(step_data[k], "condition", None)]]]

\* WorkflowEngine._substitute_variables on a string: {{name}} becomes the
\* value of the variable
_substitute_variables(tokens, variables) ==
    [k \in 1..Len(tokens) |->
        IF tokens[k] = "{{ready}}" /\ "ready" \in DOMAIN variables THEN variables.ready
        ELSE IF tokens[k] = "{{count}}" /\ "count" \in DOMAIN variables THEN variables.count
        ELSE tokens[k]]

\* str.lower of a condition
LowerCondition(tokens) ==
    [k \in 1..Len(tokens) |-> IF tokens[k] = "TRUE" THEN "true" ELSE tokens[k]]

\* bool(eval(condition)) of Python, where it is defined: a NameError or a
\* SyntaxError otherwise
EvalCondition(tokens) ==
    IF Len(tokens) = 3 /\ tokens[2] = "==" /\ { tokens[1], tokens[3] } \subseteq { "1", "2" }
    THEN IF tokens[1] = tokens[3] THEN TT ELSE FF
    ELSE EXC

\* WorkflowEngine._evaluate_condition
EvaluateStepCondition(condition, variables) ==
    LET substituted == _substitute_variables(condition, variables) IN
    IF LowerCondition(substituted) \in { << "true" >>, << "1" >>, << "yes" >> } THEN TRUE
    ELSE IF LowerCondition(substituted) \in { << "false" >>, << "0" >>, << "no" >> }
    THEN FALSE
    ELSE EvalCondition(substituted) = TT

\* step.condition and not self._evaluate_condition(step.condition, context)
Skipped(st, variables) ==
    st.condition # None /\ ~EvaluateStepCondition(st.condition, variables)

\* a loop that goes on to the next step whatever the result of a step
NeverEndsWorkflow(result) == FALSE

\* not step_result.get('success', False): the step ends the workflow
EndsWorkflow(result) == ~Get(result, "success", FALSE)

IdleWorkflow == [pc |-> "idle"]
Executing == { "for", "step" }

\* the step runner is not running
StepRunnerAtRest ==
    /\ step = [action |-> "send_message", timeout |-> StepTimeout, retry_count |-> 0]
    /\ step_pc = "ready"
    /\ step_attempt = 0
    /\ step_events = << >>
    /\ step_result = NoStepResult

InitWorkflow ==
    /\ inbox = << >>
    /\ received = 0
    /\ active_workflows = {}
    /\ contexts = << >>
    /\ wf = IdleWorkflow
    /\ stops_handled = {}

\* the workflow a stop_workflow message with this id is about, if it is
\* executing
Target(workflow_id) ==
    IF wf.pc \in Executing /\ workflow_id \in { wf.workflow_id, wf.message.workflow_id }
    THEN wf.workflow_id ELSE None

\* the orchestrator sends a message and the websocket receives it: a
\* workflow to execute once the service has answered what was sent before, a
\* workflow to stop at any time
Receive ==
    /\ received < MaxReceived
    /\ received' = received + 1
    /\ \/ /\ wf.pc = "idle"
          /\ inbox = << >>
          /\ \E id \in OrchestratorIds, workflow_data \in WorkflowDatas :
                inbox' = Append(inbox, [type |-> "execute_workflow", workflow_id |-> id,
                                        workflow_data |-> workflow_data, target |-> None])
       \/ \E id \in StopIds :
             inbox' = Append(inbox, [type |-> "stop_workflow", workflow_id |-> id,
                                     target |-> Target(id)])
    /\ UNCHANGED << active_workflows, contexts, wf, stops_handled, stepVars >>

\* handle_message gets an execute_workflow message: execute_workflow of the
\* engine creates the context, stores it in active_workflows and parses the
\* steps; a ValueError of the parser is caught and returned as a failure
ExecuteWorkflow ==
    /\ wf.pc = "idle"
    /\ inbox # << >>
    /\ Head(inbox).type = "execute_workflow"
    /\ inbox' = Tail(inbox)
    /\ LET workflow_id == EngineIds[Cardinality(DOMAIN contexts) + 1]
           parsed == _parse_workflow_steps(Head(inbox).workflow_data)
       IN  /\ contexts' = [u \in DOMAIN contexts \cup { workflow_id } |->
                              IF u = workflow_id THEN "pending" ELSE contexts[u]]
           /\ active_workflows' = active_workflows \cup { workflow_id }
           /\ wf' = IF "raised" \in DOMAIN parsed
                    THEN [pc |-> "returned", message |-> Head(inbox),
                          workflow_id |-> workflow_id, steps |-> << >>, i |-> 1,
                          ran |-> << >>, results |-> << >>,
                          result |-> [success |-> FALSE, error |-> parsed.raised,
                                      workflow_id |-> workflow_id]]
                    ELSE [pc |-> "for", message |-> Head(inbox),
                          workflow_id |-> workflow_id, steps |-> parsed.steps, i |-> 1,
                          ran |-> << >>, results |-> << >>]
    /\ UNCHANGED << received, stops_handled, stepVars >>

\* _execute_workflow_steps at the head of its loop: a step whose condition
\* is false is skipped, another one is given to the step runner; after the
\* last step the workflow has succeeded, execute_workflow sets the status,
\* removes the workflow from active_workflows and returns
NextStep ==
    /\ wf.pc = "for"
    /\ IF wf.i > Len(wf.steps)
       THEN /\ wf' = [wf EXCEPT !.pc = "returned"]
                     @@ [result |-> [success |-> TRUE, results |-> wf.results,
                                     workflow_id |-> wf.workflow_id]]
            /\ contexts' = [contexts EXCEPT ![wf.workflow_id] = "completed"]
            /\ active_workflows' = active_workflows \ { wf.workflow_id }
            /\ UNCHANGED stepVars
       ELSE IF Skipped(wf.steps[wf.i], WorkflowVariables)
       THEN /\ wf' = [wf EXCEPT !.i = @ + 1]
            /\ UNCHANGED << contexts, active_workflows, stepVars >>
       ELSE /\ wf' = [wf EXCEPT !.pc = "step", !.ran = Append(@, wf.i)]
            /\ step' = [action |-> wf.steps[wf.i].action, timeout |-> wf.steps[wf.i].timeout,
                        retry_count |-> wf.steps[wf.i].retry_count]
            /\ UNCHANGED << contexts, active_workflows, step_pc, step_attempt, step_events,
                            step_result >>
    /\ UNCHANGED << inbox, received, stops_handled >>

\* the step runner is over.  Its result is stored, and a failure ends the
\* workflow: execute_workflow sets the status, removes the workflow from
\* active_workflows and returns.  An exception of the runner is caught by
\* execute_workflow, which returns a failure.
StepOver ==
    /\ wf.pc = "step"
    /\ step_pc \in { "returned", "raised" }
    /\ IF step_pc = "raised"
       THEN /\ wf' = [wf EXCEPT !.pc = "returned"]
                     @@ [result |-> [success |-> FALSE, error |-> << "UnboundLocalError" >>,
                                     workflow_id |-> wf.workflow_id]]
            /\ UNCHANGED << contexts, active_workflows >>
       ELSE IF EndsWorkflow(step_result)
       THEN /\ wf' = [wf EXCEPT !.pc = "returned", !.results = Append(@, step_result)]
                     @@ [result |-> [success |-> FALSE,
                                     error |-> << "Step", wf.steps[wf.i].id, "failed" >>,
                                     results |-> Append(wf.results, step_result),
                                     workflow_id |-> wf.workflow_id]]
            /\ contexts' = [contexts EXCEPT ![wf.workflow_id] = "failed"]
            /\ active_workflows' = active_workflows \ { wf.workflow_id }
       ELSE /\ wf' = [wf EXCEPT !.pc = "for", !.i = @ + 1,
                                !.results = Append(@, step_result)]
            /\ UNCHANGED << contexts, active_workflows >>
    /\ step' = [action |-> "send_message", timeout |-> StepTimeout, retry_count |-> 0]
    /\ step_pc' = "ready"
    /\ step_attempt' = 0
    /\ step_events' = << >>
    /\ step_result' = NoStepResult
    /\ UNCHANGED << inbox, received, stops_handled >>

\* the service sends the workflow_result, and handle_message returns
SendWorkflowResult ==
    /\ wf.pc = "returned"
    /\ wf' = IdleWorkflow
    /\ UNCHANGED << inbox, received, active_workflows, contexts, stops_handled, stepVars >>

\* handle_message gets a stop_workflow message: stop_workflow of the engine
\* marks and removes a workflow that is in active_workflows
StopWorkflow ==
    /\ wf.pc = "idle"
    /\ inbox # << >>
    /\ Head(inbox).type = "stop_workflow"
    /\ inbox' = Tail(inbox)
    /\ LET workflow_id == Head(inbox).workflow_id IN
       IF workflow_id \in active_workflows
       THEN /\ contexts' = [contexts EXCEPT ![workflow_id] = "stopped"]
            /\ active_workflows' = active_workflows \ { workflow_id }
       ELSE UNCHANGED << contexts, active_workflows >>
    /\ stops_handled' = stops_handled \cup ({ Head(inbox).target } \ { None })
    /\ UNCHANGED << received, wf, stepVars >>

(***************************************************************************)
(* Properties of workflows.                                                *)
(***************************************************************************)
\* the step was given to the step runner
Ran(j) == \E k \in 1..Len(wf.ran) : wf.ran[k] = j

Succeeded(result) == Get(result, "success", FALSE)

\* C32: the steps of a workflow run in list order; the first step whose
\* final result is not a success ends the workflow with success = false and
\* no later step runs; a step whose condition is false is skipped, leaves no
\* result and does not fail the workflow; and the workflow reports success
\* iff no step that ran failed.
C32_StepsInOrderFirstFailureEnds ==
    wf.pc # "idle" =>
        /\ \A k \in 1..(Len(wf.ran) - 1) : wf.ran[k] < wf.ran[k + 1]
        /\ \A j \in 1..Len(wf.steps) :
               /\ j < wf.i => (Ran(j) <=> ~Skipped(wf.steps[j], WorkflowVariables))
               /\ j > wf.i => ~Ran(j)
        /\ wf.pc = "step" => Ran(wf.i)
        /\ \A k \in 1..(Len(wf.results) - 1) : Succeeded(wf.results[k])
        /\ wf.pc \in Executing =>
               /\ \A k \in 1..Len(wf.results) : Succeeded(wf.results[k])
               /\ Len(wf.results) = Len(wf.ran) - (IF wf.pc = "step" THEN 1 ELSE 0)
        /\ (wf.pc = "returned" /\ "results" \in DOMAIN wf.result) =>
               /\ wf.result.results = wf.results
               /\ Len(wf.results) = Len(wf.ran)
               /\ wf.result.success <=> \A k \in 1..Len(wf.results) : Succeeded(wf.results[k])
               /\ wf.result.success => wf.i = Len(wf.steps) + 1
               /\ ~wf.result.success => wf.ran[Len(wf.ran)] = wf.i
        /\ (wf.pc = "returned" /\ "results" \notin DOMAIN wf.result) => ~wf.result.success

\* a workflow of two steps has returned a failure after its first step
\* failed, and its second step did not run
C32_Witness ==
    /\ wf.pc = "returned"
    /\ Len(wf.steps) = 2
    /\ wf.steps[2].condition = None
    /\ wf.ran = << 1 >>
    /\ ~wf.result.success
    /\ "results" \in DOMAIN wf.result
    /\ Len(wf.result.results) = 1

\* C33: once a stop_workflow message for a workflow that was executing has
\* been handled, the workflow executes no further step and its status is
\* 'stopped', not 'completed' or 'failed'.
C33_StopStopsRunningWorkflow ==
    \A u \in stops_handled :
        /\ contexts[u] = "stopped"
        /\ ~(wf.pc \in Executing /\ wf.workflow_id = u)

\* C37: active_workflows holds only workflows whose execute_workflow call is
\* in progress: when the call has returned, with a success or with any
\* failure, the workflow is not in active_workflows.
C37_ActiveWorkflowsAreExecuting ==
    \A u \in active_workflows : wf.pc \in Executing /\ wf.workflow_id = u

(***************************************************************************)
(* The websocket client (wechat_automation_service/websocket_client.py):   *)
(* send_message, and connect with _send_queued_messages.  The service      *)
(* passes every message to send_message once; the server keeps what it was *)
(* sent.  One connect runs at a time.                                      *)
(***************************************************************************)
VARIABLES
    connected,         \* self.connected
    message_queue,     \* self.message_queue
    queue_copy,        \* _send_queued_messages: what is left of message_queue.copy()
    client_pc,         \* "idle", or "flush" while _send_queued_messages runs
    passed,            \* how many messages were passed to send_message by the service
    delivered          \* what the server has received, in its order

clientVars == << connected, message_queue, queue_copy, client_pc, passed, delivered >>

\* the messages of the service, in the order it sends them
ClientMessages == << "m1", "m2", "m3" >>

\* how often the message is in the sequence
RECURSIVE Occurrences(_, _)
Occurrences(seq, message) ==
    IF seq = << >> THEN 0
    ELSE (IF Head(seq) = message THEN 1 ELSE 0) + Occurrences(Tail(seq), message)

\* list.remove: the list without the first entry that equals the message
RECURSIVE Remove(_, _)
Remove(seq, message) ==
    IF seq = << >> THEN << >>
    ELSE IF Head(seq) = message THEN Tail(seq)
    ELSE << Head(seq) >> \o Remove(Tail(seq), message)

\* WebSocketClient.send_message: the queue and the server after the call,
\* and whether it raised; sent tells whether websocket.send went through
send_message(message, sent) ==
    IF ~connected THEN [queue |-> Append(message_queue, message), raised |-> FALSE,
                        delivered |-> delivered]
    ELSE IF sent THEN [queue |-> message_queue, raised |-> FALSE,
                       delivered |-> Append(delivered, message)]
    ELSE [queue |-> Append(message_queue, message), raised |-> TRUE,
          delivered |-> delivered]

InitClient ==
    /\ connected = FALSE
    /\ message_queue = << >>
    /\ queue_copy = << >>
    /\ client_pc = "idle"
    /\ passed = 0
    /\ delivered = << >>

\* the service passes its next message to send_message
SendMessage ==
    /\ passed < MaxSends
    /\ passed' = passed + 1
    /\ \E sent \in BOOLEAN :
          LET r == send_message(ClientMessages[passed + 1], sent) IN
          /\ Len(r.queue) <= MaxQueued
          /\ Len(r.delivered) <= MaxDelivered
          /\ message_queue' = r.queue
          /\ delivered' = r.delivered
    /\ UNCHANGED << connected, queue_copy, client_pc >>

\* connect, when websockets.connect succeeds: the client is connected and
\* _send_queued_messages starts with a copy of the queue.  A connect that
\* fails leaves the client as it was.
Connect ==
    /\ ~connected
    /\ client_pc = "idle"
    /\ connected' = TRUE
    /\ queue_copy' = message_queue
    /\ client_pc' = IF message_queue = << >> THEN "idle" ELSE "flush"
    /\ UNCHANGED << message_queue, passed, delivered >>

\* one iteration of the loop of _send_queued_messages: send_message, then
\* remove; a send_message that raised ends the loop
SendQueuedMessage ==
    /\ client_pc = "flush"
    /\ \E sent \in BOOLEAN :
          LET message == Head(queue_copy)
              r == send_message(message, sent)
          IN  /\ Len(r.queue) <= MaxQueued
              /\ Len(r.delivered) <= MaxDelivered
              /\ delivered' = r.delivered
              /\ IF r.raised
                 THEN /\ message_queue' = r.queue
                      /\ queue_copy' = << >>
                      /\ client_pc' = "idle"
                 ELSE /\ message_queue' = Remove(r.queue, message)
                      /\ queue_copy' = Tail(queue_copy)
                      /\ client_pc' = IF Tail(queue_copy) = << >> THEN "idle" ELSE "flush"
    /\ UNCHANGED << connected, passed >>

\* the message handler finds the connection closed
ConnectionClosed ==
    /\ connected
    /\ connected' = FALSE
    /\ UNCHANGED << message_queue, queue_copy, client_pc, passed, delivered >>

\* C38: a message passed to send_message reaches the server at most once
\* and is in message_queue at most once; a message the server has received
\* is not queued any more; and this holds after a send that failed, in
\* normal sending as in sending the queue.
C38_AtMostOnceDeliveredAndQueued ==
    \A k \in 1..Len(ClientMessages) :
        /\ Occurrences(delivered, ClientMessages[k]) <= 1
        /\ Occurrences(message_queue, ClientMessages[k]) <= 1
        /\ client_pc = "idle" =>
               Occurrences(delivered, ClientMessages[k])
                   + Occurrences(message_queue, ClientMessages[k]) <= 1

(***************************************************************************)
(* The specifications: one per subsystem, the other subsystems at rest.    *)
(***************************************************************************)
vars == << pmVars, ragVars, promptVars, batchVars, slotVars, chunkVars, turnVars, condVars, stepVars, consumerVars, workflowVars, clientVars >>

RagAtRest == InitRag /\ last_prompt = NoPrompt

PhaseAtRest ==
    /\ workflow_config = [auto_transition |-> TRUE, phase_timeout |-> PHASE_TIMEOUT]
    /\ branch_flow = [up |-> TRUE, rows |-> {}]
    /\ context = << >>
    /\ pm_pc = "idle"
    /\ pm_call = NoCall
    /\ branch_rules = << >>
    /\ pm_ret = NoRet

BatchAtRest ==
    /\ max_concurrent = 1
    /\ llm_initialized = FALSE
    /\ batch_requests = << >>
    /\ batch_pc = "idle"
    /\ semaphore = [value |-> 0, waiters |-> << >>]
    /\ task_pc = << >>
    /\ task_exc = << >>
    /\ task_result = << >>
    /\ batch_result = << >>

SlotsAtRest ==
    /\ slot_parts = << >>
    /\ slot_called = FALSE
    /\ slot_result = << >>

TurnAtRest ==
    /\ db_conversations = [c \in { StoredConversation } |-> "INFO_COLLECTION"]
    /\ db_messages = << >>
    /\ db_prompt_templates = {}
    /\ db_connected = FALSE
    /\ default_ai_provider = "openai"
    /\ turn = IdleTurn

ConditionAtRest ==
    /\ cond_rule = [condition_type |-> "client_interest", condition_data |-> << >>]
    /\ cond_message = << >>
    /\ cond_called = FALSE
    /\ cond_result = FF

StepAtRest ==
    /\ step = [action |-> "send_message", timeout |-> StepTimeout, retry_count |-> 0]
    /\ step_pc = "ready"
    /\ step_attempt = 0
    /\ step_events = << >>
    /\ step_result = NoStepResult

ConsumerAtRest == InitConsumer

WorkflowAtRest == InitWorkflow

ClientAtRest == InitClient

ChunkAtRest ==
    /\ chunk_content = << >>
    /\ chunk_config = [chunk_size |-> rag_config.chunk_size,
                       chunk_overlap |-> rag_config.chunk_overlap]
    /\ chunk_called = FALSE
    /\ chunk_result = << >>

InitPhaseSpec == InitPhase /\ RagAtRest /\ BatchAtRest /\ SlotsAtRest /\ ChunkAtRest /\ TurnAtRest /\ ConditionAtRest /\ StepAtRest /\ ConsumerAtRest /\ WorkflowAtRest /\ ClientAtRest

NextPhaseSpec ==
    DetermineNextPhase /\ UNCHANGED << ragVars, promptVars, batchVars, slotVars, chunkVars, turnVars, condVars, stepVars, consumerVars, workflowVars, clientVars >>

SpecPhase == InitPhaseSpec /\ [][NextPhaseSpec]_vars

InitRagSpec == RagAtRest /\ PhaseAtRest /\ BatchAtRest /\ SlotsAtRest /\ ChunkAtRest /\ TurnAtRest /\ ConditionAtRest /\ StepAtRest /\ ConsumerAtRest /\ WorkflowAtRest /\ ClientAtRest

NextRagSpec ==
    \/ Initialize /\ UNCHANGED << pmVars, promptVars, batchVars, slotVars, chunkVars, turnVars, condVars, stepVars, consumerVars, workflowVars, clientVars >>
    \/ UpdateKnowledgeBase /\ UNCHANGED << pmVars, promptVars, batchVars, slotVars, chunkVars, turnVars, condVars, stepVars, consumerVars, workflowVars, clientVars >>
    \/ AddDocument /\ UNCHANGED << pmVars, promptVars, batchVars, slotVars, chunkVars, turnVars, condVars, stepVars, consumerVars, workflowVars, clientVars >>
    \/ InsertDocument /\ UNCHANGED << pmVars, promptVars, batchVars, slotVars, chunkVars, turnVars, condVars, stepVars, consumerVars, workflowVars, clientVars >>
    \/ LoadDocumentsFromDb /\ UNCHANGED << pmVars, promptVars, batchVars, slotVars, chunkVars, turnVars, condVars, stepVars, consumerVars, workflowVars, clientVars >>
    \/ CreateNewIndex /\ UNCHANGED << pmVars, promptVars, batchVars, slotVars, chunkVars, turnVars, condVars, stepVars, consumerVars, workflowVars, clientVars >>
    \/ SearchDocuments /\ UNCHANGED << pmVars, promptVars, batchVars, slotVars, chunkVars, turnVars, condVars, stepVars, consumerVars, workflowVars, clientVars >>
    \/ Restart /\ UNCHANGED << pmVars, promptVars, batchVars, slotVars, chunkVars, turnVars, condVars, stepVars, consumerVars, workflowVars, clientVars >>

SpecRag == InitRagSpec /\ [][NextRagSpec]_vars

\* last_prompt describes the last step only
PromptForgotten == last_prompt' = NoPrompt /\ UNCHANGED << pmVars, batchVars, slotVars, chunkVars, turnVars, condVars, stepVars, consumerVars, workflowVars, clientVars >>

\* the RAG system answering questions while its index is built, rebuilt and
\* reloaded
NextPromptSpec ==
    \/ Initialize /\ PromptForgotten
    \/ UpdateKnowledgeBase /\ PromptForgotten
    \/ AddDocument /\ PromptForgotten
    \/ InsertDocument /\ PromptForgotten
    \/ LoadDocumentsFromDb /\ PromptForgotten
    \/ CreateNewIndex /\ PromptForgotten
    \/ Restart /\ PromptForgotten
    \/ GenerateResponseWithRag /\ UNCHANGED << pmVars, batchVars, slotVars, chunkVars, turnVars, condVars, stepVars, consumerVars, workflowVars, clientVars >>

SpecPrompt == InitRagSpec /\ [][NextPromptSpec]_vars

InitBatchSpec == InitBatch /\ PhaseAtRest /\ RagAtRest /\ SlotsAtRest /\ ChunkAtRest /\ TurnAtRest /\ ConditionAtRest /\ StepAtRest /\ ConsumerAtRest /\ WorkflowAtRest /\ ClientAtRest

TaskStartsStep ==
    (\E i \in Tasks : TaskStarts(i)) /\ UNCHANGED << pmVars, ragVars, promptVars, slotVars, chunkVars, turnVars, condVars, stepVars, consumerVars, workflowVars, clientVars >>

WaiterResumesStep ==
    (\E i \in Tasks : WaiterResumes(i))
    /\ UNCHANGED << pmVars, ragVars, promptVars, slotVars, chunkVars, turnVars, condVars, stepVars, consumerVars, workflowVars, clientVars >>

ProcessRequestEndsStep ==
    (\E i \in Tasks : ProcessRequestEnds(i))
    /\ UNCHANGED << pmVars, ragVars, promptVars, slotVars, chunkVars, turnVars, condVars, stepVars, consumerVars, workflowVars, clientVars >>

GatherReturnsStep ==
    GatherReturns /\ UNCHANGED << pmVars, ragVars, promptVars, slotVars, chunkVars, turnVars, condVars, stepVars, consumerVars, workflowVars, clientVars >>

NextBatchSpec ==
    \/ ProcessBatchRequests /\ UNCHANGED << pmVars, ragVars, promptVars, slotVars, chunkVars, turnVars, condVars, stepVars, consumerVars, workflowVars, clientVars >>
    \/ TaskStartsStep
    \/ WaiterResumesStep
    \/ ProcessRequestEndsStep
    \/ GatherReturnsStep

SpecBatch == InitBatchSpec /\ [][NextBatchSpec]_vars

\* the event loop runs every task that is ready, and every process_request
\* call ends
SpecBatchFair ==
    /\ InitBatchSpec
    /\ [][NextBatchSpec]_vars
    /\ WF_vars(TaskStartsStep)
    /\ WF_vars(WaiterResumesStep)
    /\ WF_vars(ProcessRequestEndsStep)
    /\ WF_vars(GatherReturnsStep)

InitSlotsSpec == InitSlots /\ PhaseAtRest /\ RagAtRest /\ BatchAtRest /\ ChunkAtRest /\ TurnAtRest /\ ConditionAtRest /\ StepAtRest /\ ConsumerAtRest /\ WorkflowAtRest /\ ClientAtRest

NextSlotsSpec == ExtractSlots /\ UNCHANGED << pmVars, ragVars, promptVars, batchVars, chunkVars, turnVars, condVars, stepVars, consumerVars, workflowVars, clientVars >>

SpecSlots == InitSlotsSpec /\ [][NextSlotsSpec]_vars

InitChunkSpec == InitChunk /\ PhaseAtRest /\ RagAtRest /\ BatchAtRest /\ SlotsAtRest /\ TurnAtRest /\ ConditionAtRest /\ StepAtRest /\ ConsumerAtRest /\ WorkflowAtRest /\ ClientAtRest

NextChunkSpec ==
    ChunkDocument /\ UNCHANGED << pmVars, ragVars, promptVars, batchVars, slotVars, turnVars, condVars, stepVars, consumerVars, workflowVars, clientVars >>

SpecChunk == InitChunkSpec /\ [][NextChunkSpec]_vars

InitTurnSpec ==
    InitTurn /\ PhaseAtRest /\ RagAtRest /\ BatchAtRest /\ SlotsAtRest /\ ChunkAtRest
    /\ ConditionAtRest /\ StepAtRest /\ ConsumerAtRest /\ WorkflowAtRest /\ ClientAtRest

TurnFrame ==
    UNCHANGED << pmVars, ragVars, promptVars, batchVars, slotVars, chunkVars, condVars,
                stepVars, consumerVars, workflowVars, clientVars >>

NextTurnSpec ==
    \/ StoreUserMessage /\ TurnFrame
    \/ ProcessRequest /\ TurnFrame
    \/ BuildPrompt /\ TurnFrame
    \/ GenerateResponse /\ TurnFrame
    \/ UpdateConversationPhase /\ TurnFrame
    \/ SaveAiResponse /\ TurnFrame
    \/ TurnOver /\ TurnFrame

SpecTurn == InitTurnSpec /\ [][NextTurnSpec]_vars

InitConditionSpec ==
    InitCondition /\ PhaseAtRest /\ RagAtRest /\ BatchAtRest /\ SlotsAtRest /\ ChunkAtRest
    /\ TurnAtRest /\ StepAtRest /\ ConsumerAtRest /\ WorkflowAtRest /\ ClientAtRest

NextConditionSpec ==
    EvaluateCondition
    /\ UNCHANGED << pmVars, ragVars, promptVars, batchVars, slotVars, chunkVars, turnVars,
                    stepVars, consumerVars, workflowVars, clientVars >>

SpecCondition == InitConditionSpec /\ [][NextConditionSpec]_vars

InitStepSpec ==
    InitStep /\ PhaseAtRest /\ RagAtRest /\ BatchAtRest /\ SlotsAtRest /\ ChunkAtRest
    /\ TurnAtRest /\ ConditionAtRest /\ ConsumerAtRest /\ WorkflowAtRest /\ ClientAtRest

StepFrame ==
    UNCHANGED << pmVars, ragVars, promptVars, batchVars, slotVars, chunkVars, turnVars,
                 condVars, consumerVars, workflowVars, clientVars >>

NextStepSpec ==
    \/ ExecuteStepWithRetries /\ StepFrame
    \/ ExecuteAction /\ StepFrame
    \/ Sleep /\ StepFrame

SpecStep == InitStepSpec /\ [][NextStepSpec]_vars

InitConsumerSpec ==
    InitTurn /\ db_prompt_templates = { "INFO_COLLECTION" } /\ InitConsumer /\ PhaseAtRest /\ RagAtRest /\ BatchAtRest /\ SlotsAtRest
    /\ ChunkAtRest /\ ConditionAtRest /\ StepAtRest /\ WorkflowAtRest /\ ClientAtRest

ConsumerFrame ==
    UNCHANGED << pmVars, ragVars, promptVars, batchVars, slotVars, chunkVars, condVars,
                 stepVars, workflowVars, clientVars >>

\* the consumer, its handler and the users who write messages
NextConsumerSpec ==
    \/ ConsumerStoresUserMessage /\ ConsumerFrame
    \/ GetPendingRequests /\ ConsumerFrame
    \/ NextRequest /\ ConsumerFrame
    \/ BuildPrompt /\ UNCHANGED consumerVars /\ ConsumerFrame
    \/ GenerateResponse /\ UNCHANGED consumerVars /\ ConsumerFrame
    \/ UpdateConversationPhase /\ UNCHANGED consumerVars /\ ConsumerFrame
    \/ SaveAiResponse /\ UNCHANGED consumerVars /\ ConsumerFrame
    \/ MarkRequestProcessed /\ ConsumerFrame
    \/ MarkRequestFailed /\ ConsumerFrame

SpecConsumer == InitConsumerSpec /\ [][NextConsumerSpec]_vars

InitWorkflowSpec ==
    InitWorkflow /\ StepRunnerAtRest /\ PhaseAtRest /\ RagAtRest /\ BatchAtRest
    /\ SlotsAtRest /\ ChunkAtRest /\ TurnAtRest /\ ConditionAtRest /\ ConsumerAtRest
    /\ ClientAtRest

WorkflowFrame ==
    UNCHANGED << pmVars, ragVars, promptVars, batchVars, slotVars, chunkVars, turnVars,
                 condVars, consumerVars, clientVars >>

\* the step runner runs for the workflow that is at a step
RunnerFrame == wf.pc = "step" /\ UNCHANGED workflowVars /\ WorkflowFrame

\* the service, its engine and the orchestrator that sends it messages
NextWorkflowSpec ==
    \/ Receive /\ WorkflowFrame
    \/ ExecuteWorkflow /\ WorkflowFrame
    \/ NextStep /\ WorkflowFrame
    \/ ExecuteStepWithRetries /\ RunnerFrame
    \/ ExecuteAction /\ RunnerFrame
    \/ Sleep /\ RunnerFrame
    \/ StepOver /\ WorkflowFrame
    \/ SendWorkflowResult /\ WorkflowFrame
    \/ StopWorkflow /\ WorkflowFrame

SpecWorkflow == InitWorkflowSpec /\ [][NextWorkflowSpec]_vars

InitClientSpec ==
    InitClient /\ PhaseAtRest /\ RagAtRest /\ BatchAtRest /\ SlotsAtRest /\ ChunkAtRest
    /\ TurnAtRest /\ ConditionAtRest /\ StepAtRest /\ ConsumerAtRest /\ WorkflowAtRest

ClientFrame ==
    UNCHANGED << pmVars, ragVars, promptVars, batchVars, slotVars, chunkVars, turnVars,
                 condVars, stepVars, consumerVars, workflowVars >>

\* the client, the service that sends through it, and the connection
NextClientSpec ==
    \/ SendMessage /\ ClientFrame
    \/ Connect /\ ClientFrame
    \/ SendQueuedMessage /\ ClientFrame
    \/ ConnectionClosed /\ ClientFrame

SpecClient == InitClientSpec /\ [][NextClientSpec]_vars

====
